---- MODULE Spec2Model ----
(***************************************************************************)
(* Model of the browser front end of the Malaysia electricity-data         *)
(* generator: the request form and its two getFormParams versions          *)
(* (static/script.js and the corrected script), the generate / download /  *)
(* sample request handlers, and the two building predictors                *)
(* (BuildingPredictor and BuildingPredictorFixed).                         *)
(*                                                                         *)
(* Texts typed into <input> elements are sequences of one-character        *)
(* strings, so that parseInt, parseFloat, trim and new Date are modelled   *)
(* by what they do to the characters.  Values of <select> elements are     *)
(* plain strings: the code only tests them for equality and truthiness.    *)
(* A custom city name is a text whose non-blank part is one element (the   *)
(* code never looks inside a name).                                        *)
(*                                                                         *)
(* Fractions of the source are kept exact: a class weight 0.65 is 650      *)
(* per mille, a latitude 3.1390 is 31390 ten-thousandths of a degree.      *)
(***************************************************************************)
EXTENDS Integers, Sequences, FiniteSets, TLC

\* ------------------------------------------------------------------------
\* Bounds of the model (not program constants)
\* ------------------------------------------------------------------------
MaxBuildings == 24
MaxPending == 1
MaxCities == 3
MaxCalls == 2
MaxLoads == 2

\* The clock of the debounce model stops at MaxTime milliseconds.
MaxTime == 1000

\* At most MaxEvents change/input events reach the predictor's listeners.
MaxEvents == 3

\* ------------------------------------------------------------------------
\* JavaScript values
\* ------------------------------------------------------------------------
\* A JavaScript number: NaN or an integer (in the unit of its use).
NaN == [nan |-> TRUE, v |-> 0]

Num(n) == [nan |-> FALSE, v |-> n]

\* What `element?.value` gives when the element is not in the document.
Undefined == <<"undefined">>

Digits == <<"0", "1", "2", "3", "4", "5", "6", "7", "8", "9">>

IsDigit(c) == \E i \in 1..10 : Digits[i] = c

DigitVal(c) == (CHOOSE i \in 1..10 : Digits[i] = c) - 1

IsBlank(c) == c = " "

\* JavaScript truthiness of a number: NaN and 0 are falsy.
Truthy(x) == ~x.nan /\ x.v # 0

\* a || b on numbers
OrElse(x, d) == IF Truthy(x) THEN x ELSE d

RECURSIVE SkipBlanks(_)
SkipBlanks(s) ==
  IF s # <<>> /\ IsBlank(Head(s)) THEN SkipBlanks(Tail(s)) ELSE s

RECURSIVE DropTrailingBlanks(_)
DropTrailingBlanks(s) ==
  IF s # <<>> /\ IsBlank(s[Len(s)])
    THEN DropTrailingBlanks(SubSeq(s, 1, Len(s) - 1))
    ELSE s

\* String.prototype.trim
trim(s) == DropTrailingBlanks(SkipBlanks(s))

\* The longest prefix of s made of digits.
RECURSIVE DigitPrefix(_)
DigitPrefix(s) ==
  IF s # <<>> /\ IsDigit(Head(s)) THEN <<Head(s)>> \o DigitPrefix(Tail(s)) ELSE <<>>

RECURSIVE DigitsValue(_, _)
DigitsValue(s, acc) ==
  IF s = <<>> THEN acc ELSE DigitsValue(Tail(s), 10 * acc + DigitVal(Head(s)))

\* parseInt(text): leading blanks, an optional sign, then decimal digits up
\* to the first other character; NaN when there is no digit.
parseInt(s) ==
  LET t == SkipBlanks(s)
      neg == t # <<>> /\ Head(t) = "-"
      u == IF t # <<>> /\ Head(t) \in {"-", "+"} THEN Tail(t) ELSE t
      d == DigitPrefix(u)
  IN  IF d = <<>> THEN NaN
      ELSE Num(IF neg THEN 0 - DigitsValue(d, 0) ELSE DigitsValue(d, 0))

\* The first four decimals of a fraction part, as ten-thousandths.
Fraction4(f) ==
  LET g == SubSeq(f \o <<"0", "0", "0", "0">>, 1, 4) IN DigitsValue(g, 0)

\* parseFloat(text) in ten-thousandths: leading blanks, an optional sign,
\* digits, an optional point and digits; NaN when there is no digit.
parseFloat(s) ==
  LET t == SkipBlanks(s)
      neg == t # <<>> /\ Head(t) = "-"
      u == IF t # <<>> /\ Head(t) \in {"-", "+"} THEN Tail(t) ELSE t
      d == DigitPrefix(u)
      r == SubSeq(u, Len(d) + 1, Len(u))
      f == IF r # <<>> /\ Head(r) = "." THEN DigitPrefix(Tail(r)) ELSE <<>>
      m == 10000 * DigitsValue(d, 0) + Fraction4(f)
  IN  IF d = <<>> /\ f = <<>> THEN NaN
      ELSE Num(IF neg THEN 0 - m ELSE m)

\* Number.prototype.toString for a natural number.
RECURSIVE ToText(_)
ToText(n) ==
  IF n < 10 THEN <<Digits[n + 1]>> ELSE ToText(n \div 10) \o <<Digits[(n % 10) + 1]>>

\* ------------------------------------------------------------------------
\* new Date("YYYY-MM-DD")
\* ------------------------------------------------------------------------
IsLeap(y) == (y % 4 = 0 /\ y % 100 # 0) \/ y % 400 = 0

DaysInMonth(y, m) ==
  IF m = 2 THEN (IF IsLeap(y) THEN 29 ELSE 28)
  ELSE IF m \in {4, 6, 9, 11} THEN 30 ELSE 31

RECURSIVE DaysBeforeMonth(_, _)
DaysBeforeMonth(y, m) ==
  IF m = 1 THEN 0 ELSE DaysBeforeMonth(y, m - 1) + DaysInMonth(y, m - 1)

\* The number of the day in the proleptic Gregorian calendar (the code only
\* compares and subtracts the timestamps of two dates).
DayNumber(y, m, d) ==
  365 * y + (y - 1) \div 4 - (y - 1) \div 100 + (y - 1) \div 400
    + DaysBeforeMonth(y, m) + d

\* The day number of a date-only ISO text, NaN (Invalid Date) otherwise.
NewDate(s) ==
  IF /\ Len(s) = 10
     /\ s[5] = "-" /\ s[8] = "-"
     /\ \A i \in {1, 2, 3, 4, 6, 7, 9, 10} : IsDigit(s[i])
  THEN LET y == DigitsValue(SubSeq(s, 1, 4), 0)
           m == DigitsValue(SubSeq(s, 6, 7), 0)
           d == DigitsValue(SubSeq(s, 9, 10), 0)
       IN  IF m \in 1..12 /\ d >= 1 /\ d <= DaysInMonth(y, m)
             THEN Num(DayNumber(y, m, d))
             ELSE NaN
  ELSE NaN

\* a >= b on JavaScript numbers: false when either is NaN.
Geq(a, b) == ~a.nan /\ ~b.nan /\ a.v >= b.v

\* ------------------------------------------------------------------------
\* The request form
\* ------------------------------------------------------------------------
\* Texts of the model's inputs.
T_empty == <<>>

T_abc == <<"a", "b", "c">>

T_0 == <<"0">>

T_neg3 == <<"-", "3">>

T_5 == <<"5">>

T_200 == <<"2", "0", "0">>

T_3_5 == <<"3", ".", "5">>

T_neg91 == <<"-", "9", "1">>

T_101_7 == <<"1", "0", "1", ".", "7">>

T_500000 == <<"5", "0", "0", "0", "0", "0">>

T_300000 == <<"3", "0", "0", "0", "0", "0">>

T_2000000 == <<"2", "0", "0", "0", "0", "0", "0">>

T_2024_01_01 == <<"2", "0", "2", "4", "-", "0", "1", "-", "0", "1">>

T_2024_01_02 == <<"2", "0", "2", "4", "-", "0", "1", "-", "0", "2">>

T_2024_01_31 == <<"2", "0", "2", "4", "-", "0", "1", "-", "3", "1">>

T_blank == <<" ">>

T_Ipoh == <<"Ipoh">>

T_Kuala_Lumpur_padded == <<" ", "Kuala Lumpur", " ">>

T_Perak == <<"Perak">>

T_Bangi == <<"Bangi">>

\* The form as the page shows it before the user touches it.
DefaultForm ==
  [numBuildings |-> T_5, startDate |-> T_2024_01_01, endDate |-> T_2024_01_02,
   freq |-> "30T", locationMode |-> "all",
   filterRegion |-> "all", filterState |-> "all", filterCity |-> "all",
   popMin |-> T_empty, popMax |-> T_empty,
   customCity |-> T_empty, customState |-> T_empty, customRegion |-> "",
   customPopulation |-> T_empty, customLat |-> T_empty, customLon |-> T_empty]

\* The frequency codes of the <select id="freq"> (switch of updateEstimation).
SupportedFreq == {"5T", "15T", "30T", "1H", "2H", "6H", "12H", "1D", "1W", "1M"}

\* null in a request
Null == "null"

NoFilter ==
  [present |-> FALSE, region |-> Null, state |-> Null, city |-> Null,
   population_min |-> <<>>, population_max |-> <<>>]

NoCustom ==
  [present |-> FALSE, name |-> <<>>, state |-> <<>>, region |-> "",
   population |-> NaN, latitude |-> NaN, longitude |-> NaN]

NoParams ==
  [num_buildings |-> NaN, start_date |-> <<>>, end_date |-> <<>>, freq |-> "",
   location_filter |-> NoFilter, custom_location |-> NoCustom]

\* params.location_filter = {...}
WithLocationFilter(f, base) ==
  [base EXCEPT !.location_filter =
    [present |-> TRUE,
     region |-> IF f.filterRegion = "all" THEN Null ELSE f.filterRegion,
     state |-> IF f.filterState = "all" THEN Null ELSE f.filterState,
     city |-> IF f.filterCity = "all" THEN Null ELSE f.filterCity,
     population_min |-> IF f.popMin # <<>> THEN <<parseInt(f.popMin)>> ELSE <<>>,
     population_max |-> IF f.popMax # <<>> THEN <<parseInt(f.popMax)>> ELSE <<>>]]

\* params.custom_location = {...}
WithCustomLocation(f, base) ==
  [base EXCEPT !.custom_location =
    [present |-> TRUE, name |-> trim(f.customCity), state |-> trim(f.customState),
     region |-> f.customRegion,
     population |-> OrElse(parseInt(f.customPopulation), Num(100000)),
     latitude |-> OrElse(parseFloat(f.customLat), Num(31390)),
     longitude |-> OrElse(parseFloat(f.customLon), Num(1016869))]]

\* The location part of the parameters with the two branches not exclusive
\* and the filter not asked for a criterion.
LocationPartBothBranches(f, base) ==
  LET filtered == IF f.locationMode = "filter" THEN WithLocationFilter(f, base) ELSE base
  IN  IF f.customCity # <<>> /\ f.customPopulation # <<>>
        THEN [kind |-> "params", alert |-> "", params |-> WithCustomLocation(f, filtered)]
        ELSE [kind |-> "params", alert |-> "", params |-> filtered]

\* The location part of the parameters; both versions build it the same
\* way.  kind is "null" when the custom location is half filled.
LocationPart(f, base) ==
  IF f.locationMode = "filter" THEN
    IF \/ f.filterRegion # "all" \/ f.filterState # "all" \/ f.filterCity # "all"
       \/ f.popMin # <<>> \/ f.popMax # <<>>
    THEN [kind |-> "params", alert |-> "", params |-> WithLocationFilter(f, base)]
    ELSE [kind |-> "params", alert |-> "", params |-> base]
  ELSE IF f.locationMode = "custom" THEN
    LET customCity == trim(f.customCity)
        customState == trim(f.customState)
    IN  IF /\ customCity # <<>> /\ customState # <<>>
           /\ f.customRegion # "" /\ f.customPopulation # <<>>
        THEN [kind |-> "params", alert |-> "", params |-> WithCustomLocation(f, base)]
        ELSE IF customCity # <<>> \/ customState # <<>> \/ f.customPopulation # <<>>
        THEN [kind |-> "null", alert |-> "custom", params |-> NoParams]
        ELSE [kind |-> "params", alert |-> "", params |-> base]
  ELSE [kind |-> "params", alert |-> "", params |-> base]

\* getFormParams of static/script.js: no validation; reading the value of
\* the removed numBuildings element throws a TypeError.
getFormParams_script_js(f) ==
  IF f.numBuildings = Undefined
  THEN [kind |-> "throw", alert |-> "", params |-> NoParams]
  ELSE LocationPart(f,
         [NoParams EXCEPT !.num_buildings = parseInt(f.numBuildings),
                          !.start_date = f.startDate,
                          !.end_date = f.endDate,
                          !.freq = f.freq])

\* getFormParams of the corrected script.
getFormParams_part_001(f) ==
  LET numBuildings == parseInt(f.numBuildings)
  IN  IF ~Truthy(numBuildings) \/ numBuildings.v <= 0
      THEN [kind |-> "null", alert |-> "numBuildings", params |-> NoParams]
      ELSE IF f.startDate = <<>> \/ f.endDate = <<>>
      THEN [kind |-> "null", alert |-> "dates", params |-> NoParams]
      ELSE IF Geq(NewDate(f.startDate), NewDate(f.endDate))
      THEN [kind |-> "null", alert |-> "order", params |-> NoParams]
      ELSE LocationPart(f,
             [NoParams EXCEPT !.num_buildings = numBuildings,
                              !.start_date = f.startDate,
                              !.end_date = f.endDate,
                              !.freq = IF f.freq # "" THEN f.freq ELSE "30T"])

\* The getFormParams of the script the page has loaded.
getFormParams(s, f) ==
  IF s = "script.js" THEN getFormParams_script_js(f) ELSE getFormParams_part_001(f)

\* ------------------------------------------------------------------------
\* State
\* ------------------------------------------------------------------------
VARIABLES
  form,        \* the values of the form's elements
  script,      \* the script the page has loaded: "script.js" or "part_001"
  pending,     \* the requests whose fetch or body has not settled yet
  posted,      \* the POST requests issued so far: endpoint and parameters
  display,     \* the alerts area, the results panel and the loading mark
  completed,   \* the last request that ran to its end, and what it showed
  prediction,  \* what the building predictor shows
  estimation,  \* what the two estimators of the page show
  malaysiaData, \* the cities the filter options are built from
  cityOptions, \* the option values of <select id="filterCity">
  loader,      \* the fields of the EnhancedOSMLoader instance
  aborted,     \* the AbortControllers whose abort() has run
  calls,       \* the position of each loadCompleteZoneBuildings call
  page         \* the zone selection, the count fields, window.loadedBuildings

\* The state outside the request handlers and the predictors.
\* The state of the OSM loader and of the page around it.
osmVars == <<loader, aborted, calls, page>>

otherVars == <<estimation, malaysiaData, cityOptions, osmVars>>

vars == <<form, script, pending, posted, display, completed, prediction, otherVars>>

NoneCompleted ==
  [op |-> "none", fetched |-> FALSE, ok |-> FALSE, success |-> FALSE,
   results |-> FALSE, error |-> FALSE,
   wrapped |-> FALSE, location_analysis |-> <<>>, handled |-> FALSE, centred |-> ""]

NoEstimation ==
  [updateRan |-> FALSE, observationsPerBuilding |-> NaN, totalObservations |-> NaN,
   zoneRan |-> FALSE, recordsPerBuilding |-> NaN, estimatedRecords |-> NaN]

NoPrediction ==
  [status |-> "none", version |-> "", mode |-> "", numBuildings |-> 0,
   matched |-> 0, cities |-> <<>>, tables |-> <<>>, difference |-> 0,
   distribution |-> <<>>]

Scripts == {"script.js", "part_001"}

Endpoint(op) ==
  IF op = "generate" THEN "/generate"
  ELSE IF op = "download" THEN "/download" ELSE "/sample"

\* showError: the alert area shows the error and the results panel opens.
showError(d) == [d EXCEPT !.alerts = "error", !.results = TRUE]

\* showLoading(false); showError(...): the catch blocks of the handlers.
CatchError(d) == showError([d EXCEPT !.loading = FALSE])

\* showResults / showSuccess run to their end.
showSuccess(d) == [d EXCEPT !.alerts = "success", !.results = TRUE]

\* ------------------------------------------------------------------------
\* The wrapper the OSM map module puts around window.generateData
\* ------------------------------------------------------------------------
\* What a call of generateData resolves to.
NoResult == [defined |-> FALSE, location_analysis |-> <<>>]

\* generateData of either script has no return statement with a value,
\* whatever data the server answered.
generateDataResult(data) == NoResult

\* handleGeneratedData(data): the map centres on the first location.
handleGeneratedData(c, data) ==
  IF ~data.defined THEN c
  ELSE [c EXCEPT !.handled = TRUE,
                 !.centred = IF data.location_analysis # <<>>
                             THEN data.location_analysis[1] ELSE @]

\* The wrapper after `await originalGenerateData()`.
wrappedGenerateData(c, data, isInitialized) ==
  LET result == generateDataResult(data)
  IN  IF result.defined /\ isInitialized THEN handleGeneratedData(c, result) ELSE c

\* The request r has run to its end and leaves c; a generateData called
\* through the wrapper goes on in the wrapper.
Ends(r, c, data, isInitialized) ==
  IF r.op = "generate" /\ r.wrapped
  THEN wrappedGenerateData([c EXCEPT !.wrapped = TRUE], data, isInitialized)
  ELSE c

\* ------------------------------------------------------------------------
\* generateData, downloadData: the synchronous part, up to the fetch
\* ------------------------------------------------------------------------
\* showLoading(true), hideResults() (generateData only), getFormParams(),
\* then either the early return, the catch block, or the POST.
StartPost(op) ==
  LET gp == getFormParams(script, form)
      d0 == [display EXCEPT !.loading = TRUE,
                            !.results = IF op = "generate" THEN FALSE ELSE @]
  IN  /\ Len(pending) < MaxPending
      /\ IF gp.kind = "null"
           THEN /\ display' = [d0 EXCEPT !.loading = FALSE, !.lastAlert = gp.alert]
                /\ UNCHANGED <<pending, posted, completed>>
         ELSE IF gp.kind = "throw"
           THEN /\ display' = CatchError(d0)
                /\ completed' = Ends([op |-> op, wrapped |-> page.wrapped],
                                      [NoneCompleted EXCEPT !.op = op, !.error = TRUE],
                                      NoResult, page.isInitialized)
                /\ UNCHANGED <<pending, posted>>
         ELSE /\ display' = d0
              /\ pending' = Append(pending,
                   [op |-> op, script |-> script, stage |-> "fetch",
                    ok |-> FALSE, params |-> gp.params,
                    wrapped |-> op = "generate" /\ page.wrapped])
              /\ posted' = posted \cup {[endpoint |-> Endpoint(op), params |-> gp.params]}
              /\ UNCHANGED completed
      /\ UNCHANGED <<form, script, prediction, otherVars>>

generateData == StartPost("generate")

downloadData == StartPost("download")

\* showSample: the corrected script marks the page as loading; the fetch is
\* a GET without parameters.
showSample ==
  /\ Len(pending) < MaxPending
  /\ display' = IF script = "part_001" THEN [display EXCEPT !.loading = TRUE] ELSE display
  /\ pending' = Append(pending,
       [op |-> "sample", script |-> script, stage |-> "fetch",
        ok |-> FALSE, params |-> NoParams, wrapped |-> FALSE])
  /\ UNCHANGED <<form, script, posted, completed, prediction, otherVars>>

Remove(q, i) == SubSeq(q, 1, i - 1) \o SubSeq(q, i + 1, Len(q))

\* ------------------------------------------------------------------------
\* The continuations after the awaits
\* ------------------------------------------------------------------------
\* `await fetch(...)` settles: the promise rejects (no connection), or it
\* resolves with a response whose ok flag is httpOk.
FetchSettles(i, resolved, httpOk) ==
  /\ i \in 1..Len(pending)
  /\ pending[i].stage = "fetch"
  /\ LET r == pending[i] IN
       IF ~resolved THEN
         \* catch block; showSample of script.js does not touch the loading mark
         /\ display' = IF r.script = "script.js" /\ r.op = "sample"
                         THEN showError(display) ELSE CatchError(display)
         /\ completed' = Ends(r, [NoneCompleted EXCEPT !.op = r.op, !.error = TRUE],
                               NoResult, page.isInitialized)
         /\ pending' = Remove(pending, i)
       ELSE IF r.script = "part_001" /\ ~httpOk /\ r.op # "generate" THEN
         \* if (!response.ok) throw new Error(`HTTP ${response.status}`)
         /\ display' = CatchError(display)
         /\ completed' = Ends(r, [NoneCompleted EXCEPT !.op = r.op, !.fetched = TRUE,
                                                        !.error = TRUE],
                               NoResult, page.isInitialized)
         /\ pending' = Remove(pending, i)
       ELSE
         \* await response.json(), or await response.text() in generateData
         \* of the corrected script when the response is not ok
         /\ pending' = [pending EXCEPT ![i].ok = httpOk,
                          ![i].stage = IF r.script = "part_001" /\ ~httpOk THEN "text" ELSE "json"]
         /\ UNCHANGED <<display, completed>>
  /\ UNCHANGED <<form, script, posted, prediction, otherVars>>

\* `await response.text()` settles in generateData of the corrected script:
\* whether it resolves or rejects, an error is thrown and caught.
TextSettles(i) ==
  /\ i \in 1..Len(pending)
  /\ pending[i].stage = "text"
  /\ display' = CatchError(display)
  /\ completed' = Ends(pending[i],
                        [NoneCompleted EXCEPT !.op = pending[i].op, !.fetched = TRUE,
                                              !.error = TRUE],
                        NoResult, page.isInitialized)
  /\ pending' = Remove(pending, i)
  /\ UNCHANGED <<form, script, posted, prediction, otherVars>>

\* `await response.json()` settles: the body is not JSON (parsed = FALSE),
\* or it is an object with the given success flag; renders tells whether
\* showResults runs to its end on that object or throws on a field.
JsonSettles(i, parsed, success, renders, location_analysis) ==
  /\ i \in 1..Len(pending)
  /\ pending[i].stage = "json"
  /\ LET r == pending[i]
         data == [defined |-> parsed,
                  location_analysis |-> IF parsed THEN location_analysis ELSE <<>>]
         done == [NoneCompleted EXCEPT !.op = r.op, !.fetched = TRUE, !.ok = r.ok,
                                       !.success = parsed /\ success,
                                       !.location_analysis = data.location_analysis]
         quiet == r.script = "script.js" /\ r.op = "sample"
         d1 == IF quiet THEN display ELSE [display EXCEPT !.loading = FALSE]
         End(c) == Ends(r, c, data, page.isInitialized)
     IN
       /\ pending' = Remove(pending, i)
       /\ IF ~parsed THEN
            /\ display' = showError(d1)
            /\ completed' = End([done EXCEPT !.error = TRUE])
          ELSE IF success THEN
            IF renders \/ r.op = "download" THEN
              /\ display' = showSuccess(d1)
              /\ completed' = End([done EXCEPT !.results = TRUE])
            ELSE
              /\ display' = showError(d1)
              /\ completed' = End([done EXCEPT !.error = TRUE])
          ELSE IF quiet THEN
            \* showSample of script.js has no else branch
            /\ display' = d1
            /\ completed' = End(done)
          ELSE
            /\ display' = showError(d1)
            /\ completed' = End([done EXCEPT !.error = TRUE])
  /\ UNCHANGED <<form, script, posted, prediction, otherVars>>

\* ------------------------------------------------------------------------
\* The estimators: updateEstimation and showZoneEstimation
\* ------------------------------------------------------------------------
\* Math.ceil(Math.abs(end - start) / (1000 * 60 * 60 * 24)): the dates are
\* day numbers, so the quotient is their distance.
DiffDays(startDate, endDate) ==
  LET start == NewDate(startDate)
      end == NewDate(endDate)
  IN  IF start.nan \/ end.nan THEN NaN
      ELSE Num(IF end.v >= start.v THEN end.v - start.v ELSE start.v - end.v)

\* x * k on JavaScript numbers
Times(x, k) == IF x.nan THEN NaN ELSE Num(x.v * k)

\* Math.ceil(x / k)
CeilDiv(x, k) == IF x.nan THEN NaN ELSE Num((x.v + k - 1) \div k)

\* The switch of updateEstimation.
observationsPerBuilding(freq, diffDays) ==
  CASE freq = "5T" -> Times(diffDays, 288)
    [] freq = "15T" -> Times(diffDays, 96)
    [] freq = "30T" -> Times(diffDays, 48)
    [] freq = "1H" -> Times(diffDays, 24)
    [] freq = "2H" -> Times(diffDays, 12)
    [] freq = "6H" -> Times(diffDays, 4)
    [] freq = "12H" -> Times(diffDays, 2)
    [] freq = "1D" -> Times(diffDays, 1)
    [] freq = "1W" -> CeilDiv(diffDays, 7)
    [] freq = "1M" -> CeilDiv(diffDays, 30)
    [] OTHER -> Times(diffDays, 48)

\* updateEstimation (both scripts): nothing is shown when the count is 0 or
\* a date is empty; in static/script.js reading a removed numBuildings
\* element throws.
updateEstimation ==
  LET numBuildings == OrElse(parseInt(form.numBuildings), Num(0))
      obs == observationsPerBuilding(form.freq, DiffDays(form.startDate, form.endDate))
  IN  /\ IF \/ (script = "script.js" /\ form.numBuildings = Undefined)
            \/ numBuildings.v = 0
            \/ form.startDate = <<>> \/ form.endDate = <<>>
           THEN UNCHANGED estimation
           ELSE estimation' = [estimation EXCEPT !.updateRan = TRUE,
                                 !.observationsPerBuilding = obs,
                                 !.totalObservations = Times(obs, numBuildings.v)]
      /\ UNCHANGED <<form, script, pending, posted, display, completed, prediction,
                     malaysiaData, cityOptions, osmVars>>

\* calculateDaysDifference
calculateDaysDifference(startDate, endDate) ==
  LET d == DiffDays(startDate, endDate) IN IF d.nan THEN NaN ELSE Num(d.v + 1)

\* What showZoneEstimation shows for a zone of estimatedBuildings buildings.
zoneEstimation(estimatedBuildings) ==
  LET startDate == IF form.startDate # <<>> THEN form.startDate ELSE T_2024_01_01
      endDate == IF form.endDate # <<>> THEN form.endDate ELSE T_2024_01_31
      freq == IF form.freq # "" THEN form.freq ELSE "D"
      daysDiff == calculateDaysDifference(startDate, endDate)
      recordsPerBuilding == IF freq = "H" THEN Times(daysDiff, 24) ELSE daysDiff
  IN  [estimation EXCEPT !.zoneRan = TRUE,
                          !.recordsPerBuilding = recordsPerBuilding,
                          !.estimatedRecords =
                            IF recordsPerBuilding.nan THEN NaN
                            ELSE Num(estimatedBuildings * recordsPerBuilding.v)]

\* showZoneEstimation for a zone of estimatedBuildings buildings.
showZoneEstimation(estimatedBuildings) ==
      /\ estimation' = zoneEstimation(estimatedBuildings)
      /\ UNCHANGED <<form, script, pending, posted, display, completed, prediction,
                     malaysiaData, cityOptions, osmVars>>

\* ------------------------------------------------------------------------
\* The cities of the filter options
\* ------------------------------------------------------------------------
\* malaysiaData as useFallbackData sets it, in source order.
useFallbackData ==
  <<[name |-> "Kuala Lumpur", population |-> 1800000, state |-> "Federal Territory",
     region |-> "Central"],
    [name |-> "George Town", population |-> 708000, state |-> "Penang",
     region |-> "Northern"],
    [name |-> "Johor Bahru", population |-> 497000, state |-> "Johor",
     region |-> "Southern"],
    [name |-> "Ipoh", population |-> 657000, state |-> "Perak", region |-> "Northern"],
    [name |-> "Shah Alam", population |-> 641000, state |-> "Selangor",
     region |-> "Central"]>>

\* ------------------------------------------------------------------------
\* The building predictors: reference tables
\* ------------------------------------------------------------------------
\* BuildingPredictor.referenceData[city].realData, per mille, in source order
BP_referenceData ==
     "Kuala Lumpur" :> <<
       <<"Residential", 680>>, <<"Commercial", 150>>, <<"Office", 50>>, <<"Industrial", 30>>,
       <<"Hospital", 1>>, <<"Clinic", 8>>, <<"School", 18>>, <<"Hotel", 23>>,
       <<"Restaurant", 35>>, <<"Retail", 25>>, <<"Warehouse", 8>>, <<"Apartment", 15>> >>
  @@ "George Town" :> <<
       <<"Residential", 720>>, <<"Commercial", 140>>, <<"Office", 40>>, <<"Industrial", 40>>,
       <<"Hospital", 1>>, <<"Clinic", 5>>, <<"School", 19>>, <<"Hotel", 19>>,
       <<"Restaurant", 25>>, <<"Retail", 22>>, <<"Warehouse", 6>>, <<"Apartment", 8>> >>
  @@ "Johor Bahru" :> <<
       <<"Residential", 700>>, <<"Commercial", 150>>, <<"Office", 50>>, <<"Industrial", 100>>,
       <<"Hospital", 1>>, <<"Clinic", 4>>, <<"School", 18>>, <<"Hotel", 10>>,
       <<"Restaurant", 20>>, <<"Retail", 18>>, <<"Warehouse", 25>>, <<"Factory", 54>> >>
  @@ "Langkawi" :> <<
       <<"Residential", 700>>, <<"Commercial", 150>>, <<"Office", 10>>, <<"Industrial", 20>>,
       <<"Hospital", 0>>, <<"Clinic", 2>>, <<"School", 12>>, <<"Hotel", 76>>,
       <<"Restaurant", 148>>, <<"Retail", 32>>, <<"Warehouse", 2>> >>

\* BuildingPredictor.cityTypeRatios, per mille
BP_cityTypeRatios ==
     "metropolis" :> <<
       <<"Residential", 680>>, <<"Commercial", 150>>, <<"Office", 80>>, <<"Industrial", 30>>,
       <<"Hospital", 1>>, <<"Clinic", 8>>, <<"School", 18>>, <<"Hotel", 15>>,
       <<"Restaurant", 30>>, <<"Retail", 25>>, <<"Warehouse", 8>>, <<"Apartment", 20>> >>
  @@ "major_city" :> <<
       <<"Residential", 710>>, <<"Commercial", 140>>, <<"Office", 60>>, <<"Industrial", 50>>,
       <<"Hospital", 1>>, <<"Clinic", 6>>, <<"School", 18>>, <<"Hotel", 12>>,
       <<"Restaurant", 25>>, <<"Retail", 22>>, <<"Warehouse", 10>>, <<"Apartment", 12>> >>
  @@ "medium_city" :> <<
       <<"Residential", 730>>, <<"Commercial", 120>>, <<"Office", 40>>, <<"Industrial", 60>>,
       <<"Hospital", 1>>, <<"Clinic", 5>>, <<"School", 20>>, <<"Hotel", 8>>,
       <<"Restaurant", 18>>, <<"Retail", 20>>, <<"Warehouse", 8>>, <<"Factory", 15>> >>
  @@ "small_city" :> <<
       <<"Residential", 750>>, <<"Commercial", 100>>, <<"Office", 20>>, <<"Industrial", 80>>,
       <<"Hospital", 0>>, <<"Clinic", 3>>, <<"School", 22>>, <<"Hotel", 5>>,
       <<"Restaurant", 12>>, <<"Retail", 18>>, <<"Warehouse", 5>> >>
  @@ "tourist_destination" :> <<
       <<"Residential", 650>>, <<"Commercial", 150>>, <<"Office", 20>>, <<"Industrial", 20>>,
       <<"Hospital", 0>>, <<"Clinic", 3>>, <<"School", 15>>, <<"Hotel", 80>>,
       <<"Restaurant", 120>>, <<"Retail", 35>>, <<"Warehouse", 3>> >>

\* BuildingPredictor.malaysiaLocations, in source order
BP_malaysiaLocations ==
  <<[name |-> "Kuala Lumpur", population |-> 1800000, region |-> "Central", type |-> "metropolis"],
    [name |-> "George Town", population |-> 708000, region |-> "Northern", type |-> "major_city"],
    [name |-> "Ipoh", population |-> 657000, region |-> "Northern", type |-> "major_city"],
    [name |-> "Shah Alam", population |-> 641000, region |-> "Central", type |-> "major_city"],
    [name |-> "Petaling Jaya", population |-> 613000, region |-> "Central", type |-> "major_city"],
    [name |-> "Johor Bahru", population |-> 497000, region |-> "Southern", type |-> "major_city"],
    [name |-> "Subang Jaya", population |-> 469000, region |-> "Central", type |-> "major_city"],
    [name |-> "Klang", population |-> 440000, region |-> "Central", type |-> "medium_city"],
    [name |-> "Kota Kinabalu", population |-> 452000, region |-> "East Malaysia", type |-> "major_city"],
    [name |-> "Malacca City", population |-> 455000, region |-> "Southern", type |-> "medium_city"],
    [name |-> "Alor Setar", population |-> 405000, region |-> "Northern", type |-> "medium_city"],
    [name |-> "Seremban", population |-> 372000, region |-> "Central", type |-> "medium_city"],
    [name |-> "Kuantan", population |-> 366000, region |-> "East Coast", type |-> "medium_city"],
    [name |-> "Langkawi", population |-> 65000, region |-> "Northern", type |-> "tourist_destination"],
    [name |-> "Cyberjaya", population |-> 65000, region |-> "Central", type |-> "small_city"],
    [name |-> "Putrajaya", population |-> 109000, region |-> "Central", type |-> "small_city"] >>

\* BuildingPredictorFixed.referenceData[city].distribution, per mille
BPF_referenceData ==
     "Kuala Lumpur" :> <<
       <<"Residential", 650>>, <<"Commercial", 120>>, <<"Office", 80>>, <<"Industrial", 40>>,
       <<"Hospital", 2>>, <<"Clinic", 10>>, <<"School", 25>>, <<"Hotel", 25>>,
       <<"Restaurant", 40>>, <<"Retail", 60>>, <<"Warehouse", 12>>, <<"Apartment", 15>> >>
  @@ "George Town" :> <<
       <<"Residential", 700>>, <<"Commercial", 140>>, <<"Office", 50>>, <<"Industrial", 40>>,
       <<"Hospital", 1>>, <<"Clinic", 6>>, <<"School", 22>>, <<"Hotel", 25>>,
       <<"Restaurant", 28>>, <<"Retail", 50>>, <<"Warehouse", 8>>, <<"Apartment", 12>> >>
  @@ "Johor Bahru" :> <<
       <<"Residential", 680>>, <<"Commercial", 120>>, <<"Office", 60>>, <<"Industrial", 120>>,
       <<"Hospital", 1>>, <<"Clinic", 5>>, <<"School", 18>>, <<"Hotel", 12>>,
       <<"Restaurant", 22>>, <<"Retail", 40>>, <<"Warehouse", 35>>, <<"Factory", 25>> >>
  @@ "Langkawi" :> <<
       <<"Residential", 600>>, <<"Commercial", 150>>, <<"Office", 20>>, <<"Industrial", 10>>,
       <<"Hospital", 0>>, <<"Clinic", 5>>, <<"School", 20>>, <<"Hotel", 120>>,
       <<"Restaurant", 150>>, <<"Retail", 60>>, <<"Warehouse", 5>> >>

\* BuildingPredictorFixed.defaultRatios, per mille
BPF_defaultRatios ==
     "metropolis" :> <<
       <<"Residential", 650>>, <<"Commercial", 120>>, <<"Office", 80>>, <<"Industrial", 40>>,
       <<"Hospital", 2>>, <<"Clinic", 10>>, <<"School", 25>>, <<"Hotel", 20>>,
       <<"Restaurant", 35>>, <<"Retail", 55>>, <<"Warehouse", 12>>, <<"Apartment", 18>> >>
  @@ "major_city" :> <<
       <<"Residential", 700>>, <<"Commercial", 130>>, <<"Office", 60>>, <<"Industrial", 50>>,
       <<"Hospital", 1>>, <<"Clinic", 8>>, <<"School", 25>>, <<"Hotel", 15>>,
       <<"Restaurant", 25>>, <<"Retail", 45>>, <<"Warehouse", 10>>, <<"Apartment", 12>> >>
  @@ "medium_city" :> <<
       <<"Residential", 720>>, <<"Commercial", 110>>, <<"Office", 40>>, <<"Industrial", 60>>,
       <<"Hospital", 1>>, <<"Clinic", 6>>, <<"School", 28>>, <<"Hotel", 10>>,
       <<"Restaurant", 18>>, <<"Retail", 40>>, <<"Warehouse", 8>>, <<"Factory", 15>> >>
  @@ "small_city" :> <<
       <<"Residential", 750>>, <<"Commercial", 100>>, <<"Office", 20>>, <<"Industrial", 80>>,
       <<"Hospital", 0>>, <<"Clinic", 5>>, <<"School", 30>>, <<"Hotel", 5>>,
       <<"Restaurant", 12>>, <<"Retail", 35>>, <<"Warehouse", 5>> >>
  @@ "tourist_destination" :> <<
       <<"Residential", 600>>, <<"Commercial", 150>>, <<"Office", 20>>, <<"Industrial", 20>>,
       <<"Hospital", 0>>, <<"Clinic", 5>>, <<"School", 25>>, <<"Hotel", 100>>,
       <<"Restaurant", 120>>, <<"Retail", 60>>, <<"Warehouse", 5>> >>
  @@ "industrial_city" :> <<
       <<"Residential", 650>>, <<"Commercial", 100>>, <<"Office", 50>>, <<"Industrial", 150>>,
       <<"Hospital", 1>>, <<"Clinic", 5>>, <<"School", 20>>, <<"Hotel", 8>>,
       <<"Restaurant", 18>>, <<"Retail", 35>>, <<"Warehouse", 40>>, <<"Factory", 35>> >>

\* BuildingPredictorFixed.malaysiaLocations, in source order
BPF_malaysiaLocations ==
  <<[name |-> "Kuala Lumpur", population |-> 1800000, region |-> "Central", type |-> "metropolis"],
    [name |-> "George Town", population |-> 708000, region |-> "Northern", type |-> "major_city"],
    [name |-> "Ipoh", population |-> 657000, region |-> "Northern", type |-> "major_city"],
    [name |-> "Shah Alam", population |-> 641000, region |-> "Central", type |-> "major_city"],
    [name |-> "Petaling Jaya", population |-> 613000, region |-> "Central", type |-> "major_city"],
    [name |-> "Johor Bahru", population |-> 497000, region |-> "Southern", type |-> "industrial_city"],
    [name |-> "Subang Jaya", population |-> 469000, region |-> "Central", type |-> "major_city"],
    [name |-> "Klang", population |-> 440000, region |-> "Central", type |-> "medium_city"],
    [name |-> "Kota Kinabalu", population |-> 452000, region |-> "East Malaysia", type |-> "major_city"],
    [name |-> "Malacca City", population |-> 455000, region |-> "Southern", type |-> "medium_city"],
    [name |-> "Alor Setar", population |-> 405000, region |-> "Northern", type |-> "medium_city"],
    [name |-> "Seremban", population |-> 372000, region |-> "Central", type |-> "medium_city"],
    [name |-> "Kuantan", population |-> 366000, region |-> "East Coast", type |-> "medium_city"],
    [name |-> "Langkawi", population |-> 65000, region |-> "Northern", type |-> "tourist_destination"],
    [name |-> "Cyberjaya", population |-> 65000, region |-> "Central", type |-> "small_city"],
    [name |-> "Putrajaya", population |-> 109000, region |-> "Central", type |-> "small_city"],
    [name |-> "Port Klang", population |-> 180000, region |-> "Central", type |-> "industrial_city"],
    [name |-> "Pasir Gudang", population |-> 200000, region |-> "Southern", type |-> "industrial_city"] >>

referenceData(ver) == IF ver = "BuildingPredictor" THEN BP_referenceData ELSE BPF_referenceData

typeRatios(ver) == IF ver = "BuildingPredictor" THEN BP_cityTypeRatios ELSE BPF_defaultRatios

malaysiaLocations(ver) ==
  IF ver = "BuildingPredictor" THEN BP_malaysiaLocations ELSE BPF_malaysiaLocations

\* ------------------------------------------------------------------------
\* Location parameters of a prediction
\* ------------------------------------------------------------------------
\* The name a text spells (a name is one element of a text).
TextToString(t) == IF t = <<>> THEN "" ELSE t[1]

\* determineCityType of BuildingPredictor
BP_determineCityType(population) ==
  IF population > 1000000 THEN "metropolis"
  ELSE IF population > 500000 THEN "major_city"
  ELSE IF population > 200000 THEN "medium_city"
  ELSE "small_city"

\* determineCityType of BuildingPredictorFixed
BPF_determineCityType(population) ==
  IF population > 1000000 THEN "metropolis"
  ELSE IF population > 500000 THEN "major_city"
  ELSE IF population > 200000 THEN "medium_city"
  ELSE IF population > 50000 THEN "small_city"
  ELSE "small_city"

determineCityType(ver, population) ==
  IF ver = "BuildingPredictor" THEN BP_determineCityType(population)
  ELSE BPF_determineCityType(population)

\* Array.prototype.filter
RECURSIVE SelectCities(_, _, _, _, _)
SelectCities(locs, region, city, popMin, popMax) ==
  IF locs = <<>> THEN <<>>
  ELSE LET info == Head(locs)
           rest == SelectCities(Tail(locs), region, city, popMin, popMax)
           out == \/ (region # "" /\ region # "all" /\ info.region # region)
                  \/ (city # "" /\ city # "all" /\ info.name # city)
                  \/ info.population < popMin
                  \/ (popMax # <<>> /\ info.population > popMax[1])
       IN  IF out THEN rest ELSE <<info>> \o rest

\* The cities a filter keeps.  popMax is <<>> for Infinity.
filteredCities(ver, f) ==
  LET popMin == OrElse(parseInt(f.popMin), Num(0)).v
      pmax == parseInt(f.popMax)
      popMax == IF Truthy(pmax) THEN <<pmax.v>> ELSE <<>>
  IN  SelectCities(malaysiaLocations(ver), f.filterRegion, f.filterCity, popMin, popMax)

getAllMalaysiaParams(ver) ==
  [mode |-> "all", cities |-> malaysiaLocations(ver)]

getFilteredLocationParams(ver, f) ==
  LET kept == filteredCities(ver, f)
  IN  IF Len(kept) = 0
        THEN getAllMalaysiaParams(ver)
        ELSE [mode |-> "filtered", cities |-> kept]

getCustomLocationParams(ver, f) ==
  LET customCity == trim(f.customCity)
      customPopulation == OrElse(parseInt(f.customPopulation), Num(100000)).v
      customRegion == IF f.customRegion # "" THEN f.customRegion ELSE "Central"
  IN  IF customCity = <<>> THEN getAllMalaysiaParams(ver)
      ELSE [mode |-> "custom",
            cities |-> << [name |-> TextToString(customCity),
                           population |-> customPopulation,
                           region |-> customRegion,
                           type |-> determineCityType(ver, customPopulation)] >>]

getLocationParameters(ver, f) ==
  IF f.locationMode = "custom" THEN getCustomLocationParams(ver, f)
  ELSE IF f.locationMode = "filter" THEN getFilteredLocationParams(ver, f)
  ELSE getAllMalaysiaParams(ver)

\* getCityDistribution: the reference table of a known city, else the
\* table of the city's type, else the table of a medium city.
getCityDistribution(ver, city) ==
  IF city.name \in DOMAIN referenceData(ver) THEN referenceData(ver)[city.name]
  ELSE IF city.type \in DOMAIN typeRatios(ver) THEN typeRatios(ver)[city.type]
  ELSE typeRatios(ver)["medium_city"]

\* ------------------------------------------------------------------------
\* calculatePrediction
\* ------------------------------------------------------------------------
\* The weight of a city, as an integer.  The source weighs a city by its
\* population (BuildingPredictorFixed), by its share of the total population
\* or by 1.0 for a custom city (BuildingPredictor), and divides the weighted
\* sums by the total weight: the quotient is the same for any weights in the
\* same proportion.  The model counts a single city as 1 and the cities of
\* malaysiaLocations, whose populations are all multiples of 1000, in
\* thousands of inhabitants, which keeps the sums small.
PopulationUnit(cities) == IF Len(cities) = 1 THEN cities[1].population ELSE 1000

Weight(cities, i) == cities[i].population \div PopulationUnit(cities)

RECURSIVE TotalWeight(_, _)
TotalWeight(cities, i) ==
  IF i > Len(cities) THEN 0 ELSE Weight(cities, i) + TotalWeight(cities, i + 1)

\* A sequence given as a function, as the tuple of its elements.
AsTuple(f) == SubSeq(f, 1, Len(f))

IndexOfType(acc, type) ==
  IF \E i \in 1..Len(acc) : acc[i][1] = type
    THEN CHOOSE i \in 1..Len(acc) : acc[i][1] = type
    ELSE 0

\* The keys of combinedDistribution after a city's table: the types the
\* object does not have yet are added at its end, in the table's order.
AddKeys(keys, table) ==
  LET types == [j \in 1..Len(table) |-> table[j][1]]
      IsNew(type) == \A k \in 1..Len(keys) : keys[k] # type
  IN  keys \o SelectSeq(types, IsNew)

RECURSIVE KeyOrder(_, _, _, _)
KeyOrder(ver, cities, i, keys) ==
  IF i > Len(cities) THEN keys
  ELSE KeyOrder(ver, cities, i + 1, AddKeys(keys, getCityDistribution(ver, cities[i])))

\* The share of a type in a table, 0 when the table does not name it.
Share(table, type) ==
  LET j == IndexOfType(table, type) IN IF j = 0 THEN 0 ELSE table[j][2]

\* combinedDistribution[buildingType] += percentage * weight, over the cities
RECURSIVE WeightedSum(_, _, _, _)
WeightedSum(ver, cities, i, type) ==
  IF i > Len(cities) THEN 0
  ELSE Share(getCityDistribution(ver, cities[i]), type) * Weight(cities, i)
         + WeightedSum(ver, cities, i + 1, type)

\* The combined distribution: the entries <<type, n>> stand for the fraction
\* n / CombinedDenominator(cities), in the order the object got its keys.
WeightedSums(ver, cities, keys) ==
  AsTuple([k \in 1..Len(keys) |-> <<keys[k], WeightedSum(ver, cities, 1, keys[k])>>])

combinedDistribution(ver, cities) ==
  WeightedSums(ver, cities, KeyOrder(ver, cities, 1, <<>>))

CombinedDenominator(cities) == 1000 * TotalWeight(cities, 1)

\* Array.prototype.sort((a, b) => b - a): stable, by decreasing value.  The
\* place of an entry is behind the larger entries and behind the equal
\* entries that came before it.
SortedPlace(entries, i) ==
  Cardinality({j \in 1..Len(entries) :
                 \/ entries[j][2] > entries[i][2]
                 \/ (entries[j][2] = entries[i][2] /\ j < i)}) + 1

sortedTypes(percentages) ==
  AsTuple([r \in 1..Len(percentages) |->
     percentages[CHOOSE i \in 1..Len(percentages) : SortedPlace(percentages, i) = r]])

\* Math.round(n / den * numBuildings): the nearest integer, halves up.
MathRound(n, den, numBuildings) == (2 * n * numBuildings + den) \div (2 * den)

RECURSIVE SumUpTo(_, _)
SumUpTo(counts, n) ==
  IF n = 0 THEN 0 ELSE counts[n][2] + SumUpTo(counts, n - 1)

SumCounts(counts) == SumUpTo(counts, Len(counts))

\* count = Math.round(percentage * totalBuildings), for every sorted type
RoundedCounts(sorted, den, totalBuildings) ==
  AsTuple([i \in 1..Len(sorted) |->
             <<sorted[i][1], MathRound(sorted[i][2], den, totalBuildings)>>])

\* The last type takes the rest, then a negative count is set to 0.
\* difference is totalBuildings - assignedBuildings.
LastTakesRest(rounded, totalBuildings) ==
  LET n == Len(rounded)
      rest == totalBuildings - SumUpTo(rounded, n - 1)
  IN  [difference |-> rest,
       distribution |->
         [i \in 1..n |->
            IF i = n THEN <<rounded[i][1], IF rest < 0 THEN 0 ELSE rest>>
            ELSE <<rounded[i][1], IF rounded[i][2] < 0 THEN 0 ELSE rounded[i][2]>>]]

\* BuildingPredictorFixed.distributeBuildingsFromPercentages: every type but
\* the last of the sorted ones gets its rounded share, the last one gets
\* the rest, and a negative count is set to 0.
distributeBuildingsFromPercentages(percentages, den, totalBuildings) ==
  LastTakesRest(RoundedCounts(sortedTypes(percentages), den, totalBuildings),
                totalBuildings)

\* The rounded counts kept as they are.
NoAdjustment(rounded, numBuildings) ==
  [difference |-> numBuildings - SumCounts(rounded), distribution |-> rounded]

\* Residential takes the difference to the total when its own count is
\* not 0.
ResidentialTakesDifference(rounded, numBuildings) ==
  LET difference == numBuildings - SumCounts(rounded)
      r == IndexOfType(rounded, "Residential")
  IN  [difference |-> difference,
       distribution |->
         IF difference # 0 /\ r # 0 /\ rounded[r][2] # 0
           THEN [rounded EXCEPT ![r] = <<"Residential", rounded[r][2] + difference>>]
           ELSE rounded]

\* The counting part of BuildingPredictor.calculatePrediction: every type
\* gets its rounded share, then the difference is adjusted.
BP_buildingCounts(percentages, den, numBuildings) ==
  ResidentialTakesDifference(
    RoundedCounts(sortedTypes(percentages), den, numBuildings), numBuildings)

\* calculatePrediction of either predictor: the building counts per type,
\* and the difference between numBuildings and the counts assigned by
\* rounding.
calculatePrediction(ver, numBuildings, cities) ==
  IF ver = "BuildingPredictor"
    THEN BP_buildingCounts(combinedDistribution(ver, cities),
                           CombinedDenominator(cities), numBuildings)
    ELSE distributeBuildingsFromPercentages(combinedDistribution(ver, cities),
                           CombinedDenominator(cities), numBuildings)

\* The tables getCityDistribution returned during a prediction.
TablesUsed(ver, cities) == [i \in 1..Len(cities) |-> getCityDistribution(ver, cities[i])]

CityNames(cities) == [i \in 1..Len(cities) |-> cities[i].name]

\* updatePrediction: an empty panel when the number of buildings is 0 (or
\* negative, for BuildingPredictorFixed), else the prediction for the form.
\* matched records how many cities the filter kept.  The predictor is taken
\* to be ready (domReady and predictionPanelCreated are set).
predict(ver) ==
  LET numBuildings == OrElse(parseInt(form.numBuildings), Num(0)).v
      empty == IF ver = "BuildingPredictor" THEN numBuildings = 0 ELSE numBuildings <= 0
  IN  IF empty
        THEN prediction' = [NoPrediction EXCEPT !.status = "empty", !.version = ver]
        ELSE \E lp \in {getLocationParameters(ver, form)} :
             \E p \in {calculatePrediction(ver, numBuildings, lp.cities)} :
               prediction' =
                 [status |-> "ok", version |-> ver, mode |-> lp.mode,
                  numBuildings |-> numBuildings,
                  matched |-> IF form.locationMode = "filter"
                                THEN Len(filteredCities(ver, form))
                                ELSE Len(lp.cities),
                  cities |-> CityNames(lp.cities),
                  tables |-> TablesUsed(ver, lp.cities),
                  difference |-> p.difference,
                  distribution |-> p.distribution]

\* updatePrediction as a call of its own.
updatePrediction(ver) ==
  /\ predict(ver)
  /\ UNCHANGED <<form, script, pending, posted, display, completed, otherVars>>

\* ------------------------------------------------------------------------
\* BuildingPredictorFixed: initialize and the debounced listeners of
\* setupEventListeners.  page.predictor holds the predictor's flags, the
\* clock (milliseconds), the pending timers of the page, the closure
\* variables holding timer ids, and what the listeners have seen: the
\* number of events, the time of the last one, the events no update by the
\* listeners has followed yet, and the updates run so far.
\* ------------------------------------------------------------------------
\* const watchedElements = [...]
watchedElements ==
  {"numBuildings", "locationMode", "filterRegion", "filterState", "filterCity",
   "populationRange", "popMin", "popMax", "customCity", "customState",
   "customRegion", "customPopulation"}

\* setTimeout(() => this.updatePrediction(), 300) of debouncedUpdate
debounceDelay == 300

\* setTimeout(() => this.updatePrediction(), 500) of initialize
initialDelay == 500

\* A variable of its own for each element, as a declaration inside the
\* forEach callback would give.
perElementTimeout(elementId) == elementId

\* let updateTimeout; is declared once, before the forEach: the variable
\* the closure debouncedUpdate of elementId reads and writes.
updateTimeout(elementId) == "updateTimeout"

NoPredictor ==
  [domReady |-> FALSE, predictionPanelCreated |-> FALSE, listening |-> {},
   now |-> 0, timers |-> {}, nextTimer |-> 1,
   timeoutIds |-> [v \in {"updateTimeout"} \cup watchedElements |-> 0],
   events |-> 0, lastEvent |-> 0, bursts |-> 0, uncovered |-> 0,
   updates |-> <<>>]

\* setTimeout(callback, delay): the state with the new timer; its id is
\* q.nextTimer.
setTimeout(q, callback, delay) ==
  [q EXCEPT !.timers = @ \cup {[id |-> q.nextTimer, due |-> q.now + delay,
                                callback |-> callback]},
            !.nextTimer = @ + 1]

\* clearTimeout(id): no timer for undefined (0) or an id that has fired.
clearTimeout(q, id) == [q EXCEPT !.timers = {t \in @ : t.id # id}]

\* debouncedUpdate of the listeners of elementId
debouncedUpdate(q, elementId) ==
  LET v == updateTimeout(elementId)
      cleared == clearTimeout(q, q.timeoutIds[v])
  IN  [setTimeout(cleared, "debouncedUpdate", debounceDelay)
         EXCEPT !.timeoutIds[v] = cleared.nextTimer]

\* BuildingPredictorFixed.initialize on a page that has the critical
\* elements: the panel, the listeners and the initial prediction's timer.
BPF_initialize ==
  /\ ~page.predictor.domReady
  /\ page' = [page EXCEPT !.predictor =
                setTimeout([@ EXCEPT !.domReady = TRUE,
                                     !.predictionPanelCreated = TRUE,
                                     !.listening = watchedElements],
                           "initialize", initialDelay)]
  /\ UNCHANGED <<form, script, pending, posted, display, completed, prediction,
                 estimation, malaysiaData, cityOptions, loader, aborted, calls>>

\* A change or input event on a watched element that has listeners: the
\* element has its new value and debouncedUpdate runs.
elementEvent(elementId, value) ==
  LET q == page.predictor
  IN  /\ elementId \in q.listening
      /\ q.events < MaxEvents
      /\ form' = IF elementId \in DOMAIN form
                   THEN [form EXCEPT ![elementId] = value] ELSE form
      /\ page' = [page EXCEPT !.predictor =
                    [debouncedUpdate(q, elementId)
                       EXCEPT !.events = @ + 1,
                              !.lastEvent = q.now,
                              !.bursts = IF q.events = 0
                                            \/ q.now - q.lastEvent >= debounceDelay
                                           THEN @ + 1 ELSE @,
                              !.uncovered = @ + 1]]
      /\ UNCHANGED <<script, pending, posted, display, completed, prediction,
                     estimation, malaysiaData, cityOptions, loader, aborted, calls>>

\* The clock advances; a timer that is due may run late.
timePasses(d) ==
  /\ page.predictor.now + d <= MaxTime
  /\ page' = [page EXCEPT !.predictor.now = @ + d]
  /\ UNCHANGED <<form, script, pending, posted, display, completed, prediction,
                 estimation, malaysiaData, cityOptions, loader, aborted, calls>>

\* A timer that is due runs its callback, this.updatePrediction(), which
\* returns at once while the predictor is not ready.
timerFires(id) ==
  LET q == page.predictor
  IN  \E t \in q.timers :
        /\ t.id = id
        /\ t.due <= q.now
        /\ IF q.domReady /\ q.predictionPanelCreated
             THEN predict("BuildingPredictorFixed")
             ELSE UNCHANGED prediction
        /\ page' = [page EXCEPT !.predictor =
                      [q EXCEPT !.timers = @ \ {t},
                                !.uncovered = IF t.callback = "debouncedUpdate"
                                                THEN 0 ELSE @,
                                !.updates = Append(@,
                                   [by |-> t.callback,
                                    since |-> q.now - q.lastEvent,
                                    events |-> q.events,
                                    covers |-> IF t.callback = "debouncedUpdate"
                                                 THEN q.uncovered ELSE 0])]]
        /\ UNCHANGED <<form, script, pending, posted, display, completed,
                       estimation, malaysiaData, cityOptions, loader, aborted, calls>>

\* ------------------------------------------------------------------------
\* updateCityOptions
\* ------------------------------------------------------------------------
\* Object.entries(malaysiaData) after the region filter only.
filterByRegionOnly(data, selectedRegion, selectedState) ==
  SelectSeq(data, LAMBDA info : selectedRegion = "all" \/ info.region = selectedRegion)

\* Object.entries(malaysiaData) after the region and state filters.
filterByRegionAndState(data, selectedRegion, selectedState) ==
  LET byRegion == SelectSeq(data, LAMBDA info :
                    selectedRegion = "all" \/ info.region = selectedRegion)
  IN  SelectSeq(byRegion, LAMBDA info :
        selectedState = "all" \/ info.state = selectedState)

\* updateCityOptions (both scripts): the 'all' option, then an option for
\* each city left by the filters, sorted by decreasing population.
updateCityOptions ==
  /\ \E kept \in {filterByRegionAndState(malaysiaData, form.filterRegion,
                                         form.filterState)} :
     \E sorted \in {sortedTypes([i \in 1..Len(kept) |->
                                   <<kept[i].name, kept[i].population>>])} :
       cityOptions' = <<"all">> \o [i \in 1..Len(sorted) |-> sorted[i][1]]
  /\ UNCHANGED <<form, script, pending, posted, display, completed, prediction,
                 estimation, malaysiaData, osmVars>>

\* ------------------------------------------------------------------------
\* EnhancedOSMLoader and window.loadRealBuildings (static/script.js), the
\* zone selector and the generate-button guard
\* (static/interface_auto_buildings.js)
\* ------------------------------------------------------------------------
maxRetries == 3

\* The zones of MALAYSIA_COMPLETE_DATA the model selects, with their
\* estimated_buildings.
MALAYSIA_COMPLETE_DATA ==
  [zone \in {"Selangor", "Kuala Lumpur"} |->
     IF zone = "Selangor" THEN 980000 ELSE 185000]

\* The loader after its constructor; abortController 0 is null, and the
\* controller a call creates carries the number of the call.
NoLoader ==
  [currentZone |-> Null, loadedBuildings |-> <<>>, isLoading |-> FALSE,
   abortController |-> 0]

\* A call of loadCompleteZoneBuildings that has not been made.  attempt and
\* signal are the locals of executeOverpassQuery; fetches, waits, before,
\* lateFetch and lateWrite record what the call did.
IdleCall ==
  [pc |-> "idle", zoneName |-> "", via |-> "", attempt |-> 0, signal |-> 0,
   fetches |-> 0, waits |-> <<>>, error |-> "",
   before |-> [loadedBuildings |-> <<>>, currentZone |-> Null],
   lateFetch |-> FALSE, lateWrite |-> FALSE]

\* window.loadedBuildings before loadRealBuildings has assigned it.
NoBuildings == [assigned |-> FALSE, list |-> <<>>]

\* The page before any zone is selected: actualBuildingsCount exists only
\* when modifyBuildingsCountField has replaced the numBuildings element.
NoPage(numBuildings) ==
  [currentZoneData |-> Null,
   actualBuildingsCount |-> IF numBuildings = Undefined THEN T_0 ELSE Undefined,
   loadedBuildingsCount |-> T_0,
   loadedBuildings |-> NoBuildings,
   isInitialized |-> FALSE, wrapped |-> FALSE,
   buildingLayers |-> <<>>, buildingCount |-> 0, osmData |-> <<>>,
   status |-> [text |-> "", n |-> 0],
   predictor |-> NoPredictor,
   loads |-> [k \in 1..MaxLoads |-> [pc |-> "idle", radius |-> 0]],
   lastClick |-> [proceeds |-> FALSE, blocked |-> FALSE,
                  zone |-> Null, buildings |-> NoBuildings]]

InitOSM ==
  /\ loader = NoLoader
  /\ aborted = {}
  /\ calls = [c \in 1..MaxCalls |-> IdleCall]
  /\ page = NoPage(form.numBuildings)

\* The number of calls made so far; calls are numbered in the order made.
Latest == Cardinality({c \in 1..MaxCalls : calls[c].pc # "idle"})

Running(c) == calls[c].pc \in {"fetch", "json", "sleep"}

\* isValidBuilding: building "" stands for an element without tags or
\* without a building tag.
isValidBuilding(element) ==
  /\ element.building # ""
  /\ element.building \notin {"no", "construction"}
  /\ element.geometry >= 3

\* convertOSMToBuilding: the building keeps the element's tag and geometry;
\* zone is the zone the geometry lies in.
convertOSMToBuilding(element) ==
  [type |-> element.building, location |-> "Malaysia", zone |-> element.zone]

processCompleteBuildings(elements) ==
  LET valid == SelectSeq(elements, isValidBuilding)
  IN  [i \in 1..Len(valid) |-> convertOSMToBuilding(valid[i])]

\* Number.prototype.toLocaleString for a count below a million.
toLocaleString(n) ==
  IF n < 1000 THEN ToText(n)
  ELSE LET low == n % 1000
       IN  ToText(n \div 1000) \o <<",">>
           \o (IF low < 10 THEN <<"0", "0">> ELSE IF low < 100 THEN <<"0">> ELSE <<>>)
           \o ToText(low)

\* finally of loadCompleteZoneBuildings.
Finally(l) == [l EXCEPT !.isLoading = FALSE, !.abortController = 0]

\* The call ends by throwing err to its caller.
Thrown(call, err) == [call EXCEPT !.pc = "failed", !.error = err]

\* The try block of the next attempt of executeOverpassQuery: the fetch gets
\* this.abortController.signal.  With a null controller the read throws a
\* TypeError, which the catch block takes as the attempt's failure; the
\* catch block then reads the null controller again, outside any try, unless
\* the attempt was the last.
NextAttempt(call, l, latest, c) ==
  LET k == call.attempt + 1
  IN  IF l.abortController # 0
      THEN [call EXCEPT !.pc = "fetch", !.attempt = k,
                        !.signal = l.abortController,
                        !.fetches = @ + 1,
                        !.lateFetch = @ \/ c # latest]
      ELSE IF k < maxRetries
           THEN Thrown([call EXCEPT !.attempt = k], "TypeError")
           ELSE Thrown([call EXCEPT !.attempt = k], "after maxRetries attempts")

\* The catch block of executeOverpassQuery after attempt call.attempt failed.
CatchAttempt(call, l, ab, latest, c) ==
  IF call.attempt < maxRetries
  THEN IF l.abortController = 0
       THEN Thrown(call, "TypeError")
       ELSE IF l.abortController \notin ab
            THEN [call EXCEPT !.pc = "sleep",
                    !.waits = Append(@, [after |-> call.attempt,
                                         delay |-> (2 ^ call.attempt) * 1000,
                                         aborted |-> call.signal \in ab])]
            ELSE NextAttempt(call, l, latest, c)
  ELSE Thrown(call, "after maxRetries attempts")

\* updateInterface: the loaded count, and the numBuildings field when the
\* document still has it.
updateInterface(p, l) ==
  [p EXCEPT !.loadedBuildingsCount = toLocaleString(Len(l.loadedBuildings))]

\* The call's new position is after; a failed call runs handleLoadingError
\* and finally, and loadRealBuildings catches its error.
Settle(c, after, l) ==
  /\ calls' = [calls EXCEPT ![c] = after]
  /\ loader' = IF after.pc = "failed" THEN Finally(l) ELSE l
  /\ UNCHANGED <<form, page>>

\* loadCompleteZoneBuildings(zoneName) up to its first await.
StartLoad(c, zoneName, via) ==
  /\ calls[c].pc = "idle"
  /\ c = Latest + 1
  /\ LET ab == IF loader.isLoading /\ loader.abortController # 0
               THEN aborted \cup {loader.abortController} ELSE aborted
         l == [loader EXCEPT !.isLoading = TRUE, !.abortController = c]
         call == [IdleCall EXCEPT !.zoneName = zoneName, !.via = via,
                    !.before = [loadedBuildings |-> loader.loadedBuildings,
                                currentZone |-> loader.currentZone]]
     IN  /\ aborted' = ab
         /\ Settle(c, IF zoneName \notin DOMAIN MALAYSIA_COMPLETE_DATA
                      THEN Thrown(call, "unsupported zone")
                      ELSE NextAttempt(call, l, c, c), l)
  /\ UNCHANGED <<script, pending, posted, display, completed, prediction,
                 estimation, malaysiaData, cityOptions>>

loadCompleteZoneBuildings(c, zoneName) == StartLoad(c, zoneName, "direct")

\* window.loadRealBuildings up to the await of the loader's call.
loadRealBuildings(c) ==
  /\ page.currentZoneData # Null
  /\ StartLoad(c, page.currentZoneData, "loadRealBuildings")

\* abortLoading
abortLoading ==
  /\ loader.abortController # 0
  /\ aborted' = aborted \cup {loader.abortController}
  /\ UNCHANGED <<form, script, pending, posted, display, completed, prediction,
                 estimation, malaysiaData, cityOptions, loader, calls, page>>

\* The fetch of an attempt settles.  A fetch whose signal is aborted rejects.
OverpassFetchSettles(c, resolved, httpOk) ==
  /\ calls[c].pc = "fetch"
  /\ calls[c].signal \in aborted => ~resolved
  /\ Settle(c, IF resolved /\ httpOk THEN [calls[c] EXCEPT !.pc = "json"]
               ELSE CatchAttempt(calls[c], loader, aborted, Latest, c), loader)
  /\ UNCHANGED <<script, pending, posted, display, completed, prediction,
                 estimation, malaysiaData, cityOptions, aborted>>

\* sleep(delay) ends and the loop makes its next attempt.
SleepEnds(c) ==
  /\ calls[c].pc = "sleep"
  /\ Settle(c, NextAttempt(calls[c], loader, Latest, c), loader)
  /\ UNCHANGED <<script, pending, posted, display, completed, prediction,
                 estimation, malaysiaData, cityOptions, aborted>>

\* response.json() rejects, or gives data without elements.
OverpassJsonFails(c) ==
  /\ calls[c].pc = "json"
  /\ Settle(c, CatchAttempt(calls[c], loader, aborted, Latest, c), loader)
  /\ UNCHANGED <<script, pending, posted, display, completed, prediction,
                 estimation, malaysiaData, cityOptions, aborted>>

\* response.json() gives data.elements: executeOverpassQuery returns them and
\* loadCompleteZoneBuildings runs to its end; loadRealBuildings then sets
\* window.loadedBuildings.
OverpassJsonSettles(c, elements) ==
  /\ calls[c].pc = "json"
  /\ calls[c].signal \notin aborted
  /\ LET l == [loader EXCEPT
                 !.loadedBuildings = processCompleteBuildings(elements),
                 !.currentZone = calls[c].zoneName]
         p == updateInterface(page, l)
     IN  /\ loader' = Finally(l)
         /\ calls' = [calls EXCEPT ![c].pc = "returned",
                                   ![c].lateWrite = c # Latest]
         /\ form' = IF form.numBuildings = Undefined THEN form
                    ELSE [form EXCEPT !.numBuildings = ToText(Len(l.loadedBuildings))]
         /\ page' = IF calls[c].via = "loadRealBuildings"
                    THEN [p EXCEPT !.loadedBuildings =
                            [assigned |-> TRUE, list |-> l.loadedBuildings]]
                    ELSE p
  /\ UNCHANGED <<script, pending, posted, display, completed, prediction,
                 estimation, malaysiaData, cityOptions, aborted>>

\* resetBuildingsCount
resetBuildingsCount(p) ==
  [p EXCEPT !.actualBuildingsCount = IF @ = Undefined THEN @ ELSE T_0,
            !.loadedBuildingsCount = T_0]

\* handleCompleteZoneSelection for a zone of MALAYSIA_COMPLETE_DATA.
handleCompleteZoneSelection(selectedZone) ==
  /\ selectedZone \in DOMAIN MALAYSIA_COMPLETE_DATA
  /\ estimation' = zoneEstimation(MALAYSIA_COMPLETE_DATA[selectedZone])
  /\ page' = resetBuildingsCount([page EXCEPT !.currentZoneData = selectedZone])
  /\ UNCHANGED <<form, script, pending, posted, display, completed, prediction,
                 malaysiaData, cityOptions, loader, aborted, calls>>

\* The click listener of generateBtn.
generateBtnClick ==
  /\ LET empty == \/ ~page.loadedBuildings.assigned
                  \/ Len(page.loadedBuildings.list) = 0
     IN  page' = [page EXCEPT !.lastClick =
                    [proceeds |-> ~empty, blocked |-> empty,
                     zone |-> page.currentZoneData,
                     buildings |-> page.loadedBuildings]]
  /\ UNCHANGED <<form, script, pending, posted, display, completed, prediction,
                 estimation, malaysiaData, cityOptions, loader, aborted, calls>>

\* OSMMapModule.initialize runs to its end: setupEventListeners wraps
\* window.generateData, then isInitialized is set.  When it throws before,
\* the page stays as it is.
initialize ==
  /\ ~page.isInitialized
  /\ page' = [page EXCEPT !.wrapped = TRUE, !.isInitialized = TRUE]
  /\ UNCHANGED <<form, script, pending, posted, display, completed, prediction,
                 estimation, malaysiaData, cityOptions, loader, aborted, calls>>

\* ------------------------------------------------------------------------
\* OSMMapModule.loadOSMData (part_002): page.buildingLayers holds the
\* polygons of all layer groups, each with its layer's type and the load
\* that added it; page.loads holds the position of each loadOSMData call.
\* ------------------------------------------------------------------------
\* The keys of buildingStyles.
buildingStyles ==
  {"residential", "apartments", "house", "commercial", "retail", "office",
   "industrial", "warehouse", "factory", "hospital", "clinic", "school",
   "university", "hotel", "restaurant", "church", "mosque", "temple", "default"}

\* The mappings of getBuildingType, as pairs of OSM value and category.
mappings ==
  {<<"yes", "default">>, <<"house", "residential">>, <<"detached", "house">>,
   <<"terrace", "residential">>, <<"semidetached_house", "house">>,
   <<"bungalow", "house">>, <<"static_caravan", "residential">>,
   <<"shop", "retail">>, <<"supermarket", "retail">>, <<"mall", "commercial">>,
   <<"department_store", "retail">>, <<"pharmacy", "clinic">>,
   <<"doctors", "clinic">>, <<"dentist", "clinic">>, <<"veterinary", "clinic">>,
   <<"kindergarten", "school">>, <<"college", "university">>,
   <<"polytechnic", "university">>, <<"library", "school">>,
   <<"place_of_worship", "church">>, <<"cathedral", "church">>,
   <<"chapel", "church">>, <<"synagogue", "church">>, <<"monastery", "church">>,
   <<"shrine", "temple">>, <<"civic", "office">>, <<"government", "office">>,
   <<"public", "office">>, <<"fire_station", "office">>, <<"police", "office">>,
   <<"courthouse", "office">>, <<"townhall", "office">>, <<"embassy", "office">>}

\* getBuildingType(tags); building "" stands for no tags or no building tag.
getBuildingType(building) ==
  IF building = "" THEN "default"
  ELSE IF building \in buildingStyles THEN building
  ELSE IF \E m \in mappings : m[1] = building
       THEN (CHOOSE m \in mappings : m[1] = building)[2]
       ELSE "default"

\* updateBuildingCounter: the polygons of all layer groups.
updateBuildingCounter(p) == [p EXCEPT !.buildingCount = Len(p.buildingLayers)]

updateStatus(p, text, n) == [p EXCEPT !.status = [text |-> text, n |-> n]]

\* clearAllBuildings
clearedMap(p) ==
  updateStatus(updateBuildingCounter([p EXCEPT !.buildingLayers = <<>>]), "cleared", 0)

\* processOSMBuildings for load k: a polygon for each element of osmData
\* whose geometry has more than two points.
processOSMBuildings(p, k) ==
  LET drawn == SelectSeq(p.osmData, LAMBDA element : element.geometry > 2)
      p1 == clearedMap(p)
  IN  updateBuildingCounter(
        [p1 EXCEPT !.buildingLayers =
           @ \o [i \in 1..Len(drawn) |->
                   [type |-> getBuildingType(drawn[i].building), load |-> k]]])

\* Math.min(50, Math.max(10, Math.round(radius / 50)))
fallbackCount(radius) ==
  LET rounded == (2 * radius + 50) \div 100
      atLeast == IF rounded < 10 THEN 10 ELSE rounded
  IN  IF atLeast > 50 THEN 50 ELSE atLeast

\* generateFallbackBuildings for load k; drawn[i] is the type that
\* Math.random picks for polygon i, taken in turn from the pattern drawn.
generateFallbackBuildings(p, k, radius, drawn) ==
  LET buildingCount == fallbackCount(radius)
      p1 == [p EXCEPT !.buildingLayers =
               @ \o [i \in 1..buildingCount |->
                       [type |-> drawn[((i - 1) % Len(drawn)) + 1], load |-> k]]]
  IN  updateStatus(updateBuildingCounter(p1), "fallback", buildingCount)

OSMUnchanged ==
  UNCHANGED <<form, script, pending, posted, display, completed, prediction,
              estimation, malaysiaData, cityOptions, loader, aborted, calls>>

\* loadOSMData(lat, lon, radius) up to its fetch.
loadOSMData(k, radius) ==
  /\ page.isInitialized
  /\ page.loads[k].pc = "idle"
  /\ \A j \in 1..(k - 1) : page.loads[j].pc # "idle"
  /\ page' = [updateStatus(page, "loading", 0) EXCEPT
                !.loads[k] = [pc |-> "fetch", radius |-> radius]]
  /\ OSMUnchanged

\* The fetch of loadOSMData settles: rejected or not ok, the catch block
\* runs generateFallbackBuildings.
OSMFetchSettles(k, resolved, httpOk, drawn) ==
  /\ page.loads[k].pc = "fetch"
  /\ page' = IF resolved /\ httpOk
             THEN [page EXCEPT !.loads[k].pc = "json"]
             ELSE [generateFallbackBuildings(updateStatus(page, "error", 0), k,
                                             page.loads[k].radius, drawn)
                     EXCEPT !.loads[k].pc = "done"]
  /\ OSMUnchanged

\* response.json() settles: the body is not JSON (parsed = FALSE) and the
\* catch block runs, or osmData = data.elements || [] is processed;
\* hasElements tells whether the data has an elements field.
OSMJsonSettles(k, parsed, hasElements, elements, drawn) ==
  /\ page.loads[k].pc = "json"
  /\ page' = IF ~parsed
             THEN [generateFallbackBuildings(updateStatus(page, "error", 0), k,
                                             page.loads[k].radius, drawn)
                     EXCEPT !.loads[k].pc = "done"]
             ELSE LET p1 == [page EXCEPT !.osmData = IF hasElements THEN elements
                                                    ELSE <<>>]
                  IN  [updateStatus(processOSMBuildings(p1, k), "loaded", Len(p1.osmData))
                         EXCEPT !.loads[k].pc = "done"]
  /\ OSMUnchanged

\* The click on the clearMap button.
clearAllBuildings ==
  /\ page.isInitialized
  /\ page.buildingLayers # <<>>
  /\ page' = clearedMap(page)
  /\ OSMUnchanged

\* ------------------------------------------------------------------------
\* The inputs of the model
\* ------------------------------------------------------------------------
\* The location_analysis of a response: none, or one entry for each city.
LocationAnalyses == {<<>>, <<"Ipoh", "Kuala Lumpur">>}

\* What the building-count field can hold; Undefined when
\* modifyBuildingsCountField has replaced the element.
CountTexts == {Undefined, T_empty, T_abc, T_0, T_neg3, T_5}

DateTexts == {T_empty, T_2024_01_01, T_2024_01_02}

\* "H" is the hourly code showZoneEstimation compares the field with.
FreqValues == {"", "30T", "1H", "H"}

BasicForms ==
  {[DefaultForm EXCEPT !.numBuildings = n, !.startDate = a, !.endDate = b, !.freq = q] :
     n \in CountTexts, a \in DateTexts, b \in DateTexts, q \in FreqValues}

FilterForms ==
  {[DefaultForm EXCEPT !.filterRegion = r, !.filterCity = c, !.popMin = lo] :
     r \in {"all", "Central"}, c \in {"all", "Ipoh"}, lo \in {T_empty, T_500000}}

CustomForms ==
  {[g EXCEPT !.customCity = c, !.customState = st, !.customRegion = r,
             !.customPopulation = pop] :
     g \in FilterForms, c \in {T_empty, T_blank, T_Ipoh}, st \in {T_empty, T_Perak},
     r \in {"", "Central"}, pop \in {T_empty, T_300000}}

LocationForms ==
  {[g EXCEPT !.locationMode = m, !.customLat = lat, !.customLon = lon] :
     g \in CustomForms, m \in {"all", "filter", "custom"},
     lat \in {T_empty, T_0, T_abc, T_200, T_neg91, T_3_5}, lon \in {T_empty, T_101_7}}

PredictCountTexts == {ToText(n) : n \in 0..MaxBuildings} \cup {T_empty}

\* The forms the predictors read: each location mode with the fields it
\* looks at.
PredictForms ==
  {[DefaultForm EXCEPT !.numBuildings = n] : n \in PredictCountTexts}
  \cup
  {[DefaultForm EXCEPT !.numBuildings = n, !.locationMode = "filter",
                       !.filterRegion = r, !.filterState = st,
                       !.filterCity = c, !.popMin = lo] :
     n \in PredictCountTexts, r \in {"all", "Northern"}, st \in {"all", "Perak"},
     c \in {"all", "Ipoh", "Langkawi"}, lo \in {T_empty, T_500000}}
  \cup
  {[DefaultForm EXCEPT !.numBuildings = n, !.locationMode = "custom",
                       !.customCity = cc, !.customPopulation = pop] :
     n \in PredictCountTexts, cc \in {T_empty, T_Ipoh, T_Kuala_Lumpur_padded},
     pop \in {T_empty, T_2000000}}

NoDisplay == [alerts |-> "none", results |-> FALSE, loading |-> FALSE, lastAlert |-> ""]

\* ------------------------------------------------------------------------
\* Specifications
\* ------------------------------------------------------------------------
InitWith(forms) ==
  /\ form \in forms
  /\ script \in Scripts
  /\ pending = <<>>
  /\ posted = {}
  /\ display = NoDisplay
  /\ completed = NoneCompleted
  /\ prediction = NoPrediction
  /\ estimation = NoEstimation
  /\ malaysiaData = <<>>
  /\ cityOptions = <<>>
  /\ InitOSM

Init == InitWith(BasicForms)

Next ==
  \/ generateData
  \/ downloadData
  \/ showSample
  \/ \E i \in 1..MaxPending, resolved \in BOOLEAN, httpOk \in BOOLEAN :
       FetchSettles(i, resolved, httpOk)
  \/ \E i \in 1..MaxPending : TextSettles(i)
  \/ \E i \in 1..MaxPending, parsed \in BOOLEAN, success \in BOOLEAN, renders \in BOOLEAN,
          location_analysis \in LocationAnalyses :
       JsonSettles(i, parsed, success, renders, location_analysis)

\* The request handlers over the count, date and frequency fields.
Spec == Init /\ [][Next]_vars

InitLocation == InitWith(LocationForms)

\* generateData and downloadData up to their fetch, over the location fields.
NextLocation == generateData \/ downloadData

SpecLocation == InitLocation /\ [][NextLocation]_vars

InitPredict == InitWith(PredictForms)

NextPredict ==
  \/ updatePrediction("BuildingPredictor")
  \/ updatePrediction("BuildingPredictorFixed")

\* The two predictors over the count and location fields.
SpecPredict == InitPredict /\ [][NextPredict]_vars

EstimateForms ==
  {[DefaultForm EXCEPT !.numBuildings = n, !.startDate = a, !.endDate = b, !.freq = q] :
     n \in {T_0, T_5}, a \in DateTexts \cup {T_2024_01_31},
     b \in DateTexts \cup {T_2024_01_31},
     q \in {"", "30T", "1H", "H", "1D", "1W", "1M"}}

InitEstimate == InitWith(EstimateForms)

NextEstimate ==
  \/ updateEstimation
  \/ \E estimatedBuildings \in {1000, 50000} : showZoneEstimation(estimatedBuildings)

\* The two estimators over the count, date and frequency fields.
SpecEstimate == InitEstimate /\ [][NextEstimate]_vars

\* Cities the server can deliver: those of useFallbackData and two cities
\* of equal population.
CityPool ==
  {useFallbackData[i] : i \in DOMAIN useFallbackData}
  \cup {[name |-> "Langkawi", population |-> 65000, state |-> "Kedah",
         region |-> "Northern"],
        [name |-> "Cyberjaya", population |-> 65000, state |-> "Selangor",
         region |-> "Central"]}

\* malaysiaData: up to MaxCities cities, each name once (the keys of an object).
CityLists ==
  {d \in UNION {[1..n -> CityPool] : n \in 0..MaxCities} :
     \A i, j \in DOMAIN d : i # j => d[i].name # d[j].name}

OptionForms ==
  {[DefaultForm EXCEPT !.locationMode = "filter", !.filterRegion = r, !.filterState = st] :
     r \in {"all", "Central", "Northern"}, st \in {"all", "Perak", "Selangor"}}

InitOptions ==
  /\ form \in OptionForms
  /\ script \in Scripts
  /\ pending = <<>>
  /\ posted = {}
  /\ display = NoDisplay
  /\ completed = NoneCompleted
  /\ prediction = NoPrediction
  /\ estimation = NoEstimation
  /\ malaysiaData \in CityLists
  /\ cityOptions = <<>>
  /\ InitOSM

NextOptions == updateCityOptions

\* updateCityOptions over the region and state fields and malaysiaData.
SpecOptions == InitOptions /\ [][NextOptions]_vars

MapForms == {DefaultForm, [DefaultForm EXCEPT !.numBuildings = T_0]}

InitMap == InitWith(MapForms)

NextMap ==
  \/ initialize
  \/ generateData
  \/ \E i \in 1..MaxPending, resolved \in BOOLEAN, httpOk \in BOOLEAN :
       FetchSettles(i, resolved, httpOk)
  \/ \E i \in 1..MaxPending : TextSettles(i)
  \/ \E i \in 1..MaxPending, parsed \in BOOLEAN, success \in BOOLEAN, renders \in BOOLEAN,
          location_analysis \in LocationAnalyses :
       JsonSettles(i, parsed, success, renders, location_analysis)

\* generateData on the page of the OSM map module.
SpecMap == InitMap /\ [][NextMap]_vars

\* The page with its numBuildings field, and the page where
\* modifyBuildingsCountField has replaced it.
LoaderForms == {DefaultForm, [DefaultForm EXCEPT !.numBuildings = Undefined]}

ZoneNames == DOMAIN MALAYSIA_COMPLETE_DATA \cup {"Atlantis"}

\* What Overpass answers for a zone: no element, or a building among
\* elements that isValidBuilding drops (building 'no', a geometry of two
\* points).
ElementLists(zone) ==
  {<<>>,
   <<[building |-> "no", geometry |-> 4, zone |-> zone],
     [building |-> "house", geometry |-> 4, zone |-> zone],
     [building |-> "yes", geometry |-> 2, zone |-> zone]>>}

\* The radius that centerMapOnLocation and loadLocationData pass.
Radii == {1000, 1500}

\* Types that Math.random draws for the fallback polygons, repeated in turn.
FallbackDraws == {<<"residential">>, <<"commercial", "hospital">>}

InitOSMData == InitWith({DefaultForm}) /\ script = "part_001"

NextOSMData ==
  \/ initialize
  \/ \E k \in 1..MaxLoads, radius \in Radii : loadOSMData(k, radius)
  \/ \E k \in 1..MaxLoads, resolved \in BOOLEAN, httpOk \in BOOLEAN,
          drawn \in FallbackDraws :
       OSMFetchSettles(k, resolved, httpOk, drawn)
  \/ \E k \in 1..MaxLoads, parsed \in BOOLEAN, hasElements \in BOOLEAN,
          elements \in ElementLists("Kuala Lumpur"), drawn \in FallbackDraws :
       OSMJsonSettles(k, parsed, hasElements, elements, drawn)
  \/ clearAllBuildings

\* Calls of the map module's loadOSMData, which may overlap.
SpecOSMData == InitOSMData /\ [][NextOSMData]_vars

\* The populations of the known cities of both predictors, and those on
\* each side of the thresholds of determineCityType.
TierPopulations ==
  {BP_malaysiaLocations[i].population : i \in DOMAIN BP_malaysiaLocations}
  \cup {BPF_malaysiaLocations[i].population : i \in DOMAIN BPF_malaysiaLocations}
  \cup {50000, 50001, 200001, 500000, 500001, 1000000, 1000001}

\* A custom city that has no reference table, with each population.
TierForms ==
  {[DefaultForm EXCEPT !.numBuildings = n, !.locationMode = "custom",
                       !.customCity = T_Bangi, !.customPopulation = ToText(pop)] :
     n \in {T_5, T_200}, pop \in TierPopulations}

InitTier == InitWith(TierForms)

\* The two predictors over custom cities of every tier.
SpecTier == InitTier /\ [][NextPredict]_vars

\* The values the events of the watched elements bring.
WatchedInputs ==
  {<<"numBuildings", T_0>>, <<"numBuildings", T_5>>,
   <<"locationMode", "custom">>, <<"populationRange", "all">>}

\* The steps of the clock.
Ticks == {100}

InitDebounce == InitWith({DefaultForm}) /\ script = "script.js"

NextDebounce ==
  \/ BPF_initialize
  \/ \E e \in WatchedInputs : elementEvent(e[1], e[2])
  \/ \E d \in Ticks : timePasses(d)
  \/ \E id \in 1..(MaxEvents + 1) : timerFires(id)

\* The predictor's timers and listeners over a clock.
SpecDebounce == InitDebounce /\ [][NextDebounce]_vars

\* EnhancedOSMLoader is a class of static/script.js.
InitLoader == InitWith(LoaderForms) /\ script = "script.js"

NextLoader ==
  \/ \E c \in 1..MaxCalls, zoneName \in ZoneNames : loadCompleteZoneBuildings(c, zoneName)
  \/ abortLoading
  \/ \E c \in 1..MaxCalls, resolved \in BOOLEAN, httpOk \in BOOLEAN :
       OverpassFetchSettles(c, resolved, httpOk)
  \/ \E c \in 1..MaxCalls : SleepEnds(c)
  \/ \E c \in 1..MaxCalls : OverpassJsonFails(c)
  \/ \E c \in 1..MaxCalls : \E elements \in ElementLists(calls[c].zoneName) :
       OverpassJsonSettles(c, elements)

\* Calls of the loader's loadCompleteZoneBuildings, which may overlap.
SpecLoader == InitLoader /\ [][NextLoader]_vars

NextZone ==
  \/ \E selectedZone \in DOMAIN MALAYSIA_COMPLETE_DATA :
       handleCompleteZoneSelection(selectedZone)
  \/ \E c \in 1..MaxCalls : loadRealBuildings(c)
  \/ \E c \in 1..MaxCalls, resolved \in BOOLEAN, httpOk \in BOOLEAN :
       OverpassFetchSettles(c, resolved, httpOk)
  \/ \E c \in 1..MaxCalls : SleepEnds(c)
  \/ \E c \in 1..MaxCalls : OverpassJsonFails(c)
  \/ \E c \in 1..MaxCalls : \E elements \in ElementLists(calls[c].zoneName) :
       OverpassJsonSettles(c, elements)
  \/ generateBtnClick

\* The zone selector, the "load real buildings" button and the generate
\* button's guard.
SpecZone == InitLoader /\ [][NextZone]_vars

\* ------------------------------------------------------------------------
\* Properties of the request handlers (Spec, SpecLocation)
\* ------------------------------------------------------------------------
\* C1: no generation request is sent with num_buildings < 1: every request
\* posted to /generate or /download carries a number of buildings that is a
\* number and is at least 1, whichever getFormParams the page runs.
C1_NoRequestBelowOneBuilding ==
  \A r \in posted :
    ~r.params.num_buildings.nan /\ r.params.num_buildings.v >= 1

\* C2: a request whose end date is not strictly after its start date is
\* rejected: every request posted with two dates has its end date after its
\* start date.
C2_EndDateAfterStartDate ==
  \A r \in posted :
    LET start == NewDate(r.params.start_date)
        end == NewDate(r.params.end_date)
    IN  (~start.nan /\ ~end.nan) => end.v > start.v

\* C3: every generate, download or sample request that completes displays
\* exactly one of results/success and error, and displays results only when
\* the HTTP response is ok and the success flag of its body is true.
C3_ExactlyOneOfResultsAndError ==
  completed.op # "none" =>
    /\ completed.results # completed.error
    /\ completed.results => (completed.ok /\ completed.success)

\* C7: a custom location with an out-of-range coordinate is rejected and not
\* passed through: every request posted with a custom location carries a
\* latitude within [-90, 90] and a longitude within [-180, 180] degrees.
C7_CustomCoordinatesInRange ==
  \A r \in posted :
    r.params.custom_location.present =>
      LET lat == r.params.custom_location.latitude
          lon == r.params.custom_location.longitude
      IN  /\ ~lat.nan /\ lat.v >= -900000 /\ lat.v <= 900000
          /\ ~lon.nan /\ lon.v >= -1800000 /\ lon.v <= 1800000

\* C8: a request whose frequency is not one of the supported codes is
\* rejected and an empty or unsupported value is not turned into a default:
\* every request posted carries a supported code, the one the form holds.
C8_OnlySupportedFrequencySent ==
  \A r \in posted :
    r.params.freq \in SupportedFreq /\ r.params.freq = form.freq

\* C10: the parameters getFormParams builds never hold both location_filter
\* and custom_location; location_filter is there only in 'filter' mode with
\* a criterion that is not 'all' or empty, custom_location only in 'custom'
\* mode with city, state, region and population filled.
C10_FilterAndCustomExclusive ==
  \A r \in posted :
    /\ ~(r.params.location_filter.present /\ r.params.custom_location.present)
    /\ r.params.location_filter.present =>
         /\ form.locationMode = "filter"
         /\ \/ form.filterRegion # "all" \/ form.filterState # "all"
            \/ form.filterCity # "all" \/ form.popMin # <<>> \/ form.popMax # <<>>
    /\ r.params.custom_location.present =>
         /\ form.locationMode = "custom"
         /\ trim(form.customCity) # <<>> /\ trim(form.customState) # <<>>
         /\ form.customRegion # "" /\ form.customPopulation # <<>>

\* A request sent with a custom location, and without a filter, from a form
\* whose filter fields hold criteria too.
C10_CustomSentWhileFilterFilled ==
  \E r \in posted :
    /\ r.params.custom_location.present
    /\ ~r.params.location_filter.present
    /\ form.filterCity # "all"
    /\ form.popMin # <<>>

\* ------------------------------------------------------------------------
\* Properties of the building predictors (SpecPredict)
\* ------------------------------------------------------------------------
\* C4: the counts of BuildingPredictorFixed.distributeBuildingsFromPercentages
\* are all >= 0 and sum to exactly totalBuildings, for every
\* totalBuildings >= 1.
C4_FixedCountsSumToTotal ==
  (/\ prediction.version = "BuildingPredictorFixed"
   /\ prediction.status = "ok"
   /\ prediction.numBuildings >= 1) =>
    /\ \A i \in DOMAIN prediction.distribution : prediction.distribution[i][2] >= 0
    /\ SumCounts(prediction.distribution) = prediction.numBuildings

\* C5: the counts of BuildingPredictor.calculatePrediction are all >= 0 and
\* sum to exactly numBuildings, for every numBuildings >= 1 and every
\* location selection: Residential absorbs the rounding difference.
C5_CountsSumToNumBuildings ==
  (/\ prediction.version = "BuildingPredictor"
   /\ prediction.status = "ok"
   /\ prediction.numBuildings >= 1) =>
    /\ \A i \in DOMAIN prediction.distribution : prediction.distribution[i][2] >= 0
    /\ SumCounts(prediction.distribution) = prediction.numBuildings

\* A prediction of BuildingPredictor over several cities whose rounded
\* counts assigned more buildings than asked for.
C5_RoundingDifferenceAbsorbed ==
  /\ prediction.version = "BuildingPredictor"
  /\ prediction.status = "ok"
  /\ prediction.numBuildings >= 1
  /\ Len(prediction.cities) > 1
  /\ prediction.difference < 0

\* C6: every class-weight table getCityDistribution returns sums to 1.0
\* (1000 per mille; the weights of the source have three decimals).
C6_TablesSumToOne ==
  \A i \in DOMAIN prediction.tables : SumCounts(prediction.tables[i]) = 1000

\* C9: when the location filter keeps no city the operation fails: no
\* prediction is made for a filter that matched nothing.
C9_EmptyFilterFails ==
  (prediction.status = "ok" /\ form.locationMode = "filter") =>
    prediction.matched > 0

\* C11: when a location filter is active, every city of the location set
\* the prediction uses meets every criterion that is set: region, state
\* (for the cities whose state useFallbackData gives), city name and
\* population_min <= population <= population_max.
C11_FilteredCitiesMeetCriteria ==
  (prediction.status = "ok" /\ form.locationMode = "filter") =>
    \A i \in DOMAIN prediction.cities :
      \E k \in DOMAIN malaysiaLocations(prediction.version) :
        LET info == malaysiaLocations(prediction.version)[k]
            popMin == parseInt(form.popMin)
            popMax == parseInt(form.popMax)
        IN  /\ info.name = prediction.cities[i]
            /\ form.filterRegion \notin {"", "all"} => info.region = form.filterRegion
            /\ form.filterState \notin {"", "all"} =>
                 \A d \in DOMAIN useFallbackData :
                   useFallbackData[d].name = info.name =>
                     useFallbackData[d].state = form.filterState
            /\ form.filterCity \notin {"", "all"} => info.name = form.filterCity
            /\ Truthy(popMin) => info.population >= popMin.v
            /\ Truthy(popMax) => info.population <= popMax.v

\* ------------------------------------------------------------------------
\* Properties of the estimators (SpecEstimate)
\* ------------------------------------------------------------------------
\* C12: for a range of d whole days at hourly frequency ('1H'), each of
\* updateEstimation and showZoneEstimation reports 24*d or 24*d+1
\* observations per building, and the two report the same number.
C12_HourlyEstimatesAgree ==
  LET start == NewDate(form.startDate)
      end == NewDate(form.endDate)
      d == end.v - start.v
      Hourly(x) == ~x.nan /\ x.v \in {24 * d, 24 * d + 1}
  IN  (form.freq = "1H" /\ ~start.nan /\ ~end.nan /\ d >= 1) =>
        /\ estimation.updateRan => Hourly(estimation.observationsPerBuilding)
        /\ estimation.zoneRan => Hourly(estimation.recordsPerBuilding)
        /\ (estimation.updateRan /\ estimation.zoneRan) =>
             estimation.observationsPerBuilding = estimation.recordsPerBuilding

\* ------------------------------------------------------------------------
\* Properties of the filter options (SpecOptions)
\* ------------------------------------------------------------------------
\* C13: after updateCityOptions the options after the leading 'all' are
\* exactly the cities of malaysiaData that match the selected region and the
\* selected state (each ignored when 'all'), each once, in non-increasing
\* order of population.
C13_CityOptionsFilteredAndSorted ==
  cityOptions # <<>> =>
    LET options == Tail(cityOptions)
        Matches(k) ==
          /\ form.filterRegion = "all" \/ malaysiaData[k].region = form.filterRegion
          /\ form.filterState = "all" \/ malaysiaData[k].state = form.filterState
        Population(name) ==
          malaysiaData[CHOOSE k \in DOMAIN malaysiaData : malaysiaData[k].name = name].population
    IN  /\ Head(cityOptions) = "all"
        /\ \A k \in DOMAIN malaysiaData :
             Cardinality({i \in DOMAIN options : options[i] = malaysiaData[k].name})
               = IF Matches(k) THEN 1 ELSE 0
        /\ \A i \in DOMAIN options :
             \E k \in DOMAIN malaysiaData : malaysiaData[k].name = options[i]
        /\ \A i, j \in DOMAIN options :
             i < j => Population(options[i]) >= Population(options[j])

\* Options built from three cities of which the state filter drops one and
\* the more populous of the other two came last in malaysiaData.
C13_CityDroppedAndOrderChanged ==
  /\ Len(malaysiaData) = 3
  /\ Len(cityOptions) = 3
  /\ form.filterState # "all"
  /\ cityOptions[2] = malaysiaData[3].name

\* ------------------------------------------------------------------------
\* Properties of the OSM loader (SpecLoader)
\* ------------------------------------------------------------------------
\* C14: once a later call of loadCompleteZoneBuildings has begun, an earlier
\* call issues no further Overpass fetch and writes neither loadedBuildings
\* nor currentZone; so when every call has ended and the latest one has
\* returned, currentZone is the zone the latest call asked for.
C14_LaterLoadCancelsEarlier ==
  /\ \A c \in 1..MaxCalls : ~calls[c].lateFetch /\ ~calls[c].lateWrite
  /\ (/\ Latest > 0
      /\ \A c \in 1..MaxCalls : ~Running(c)
      /\ calls[Latest].pc = "returned")
     => loader.currentZone = calls[Latest].zoneName

\* C15: isLoading is true and abortController is non-null exactly while at
\* least one call of loadCompleteZoneBuildings has started and has neither
\* returned nor thrown.
C15_LoadingExactlyWhileACallRuns ==
  LET running == \E c \in 1..MaxCalls : Running(c)
  IN  /\ loader.isLoading = running
      /\ (loader.abortController # 0) = running

\* C16: a call of executeOverpassQuery issues at most maxRetries fetches and
\* stops at the first well-formed response; it waits only after failed
\* attempt 1 or 2, for 2^k seconds, and only when the fetch that failed was
\* not aborted; a call that throws has made maxRetries attempts and reports
\* the failure after maxRetries attempts.
C16_ThreeAttemptsWithBackoff ==
  \A c \in 1..MaxCalls :
    LET call == calls[c]
    IN  /\ call.fetches <= maxRetries
        /\ call.pc = "returned" => call.fetches = call.attempt
        /\ \A i \in DOMAIN call.waits :
             /\ call.waits[i].after \in {1, 2}
             /\ call.waits[i].delay = (2 ^ call.waits[i].after) * 1000
             /\ ~call.waits[i].aborted
        /\ (call.pc = "failed" /\ call.error # "unsupported zone")
             => /\ call.error = "after maxRetries attempts"
                /\ call.attempt = maxRetries

\* C17 as stated: when a call of loadCompleteZoneBuildings fails, for an
\* unknown zone or after all its attempts, loadedBuildings and currentZone
\* hold what they held before the call, isLoading is false and
\* abortController is null.
C17_FailedLoadKeepsValuesBeforeCall ==
  [][\A c \in 1..MaxCalls :
       (/\ calls[c].pc # "failed"
        /\ calls'[c].pc = "failed"
        /\ calls'[c].error \in {"unsupported zone", "after maxRetries attempts"})
       => /\ loader'.loadedBuildings = calls'[c].before.loadedBuildings
          /\ loader'.currentZone = calls'[c].before.currentZone
          /\ ~loader'.isLoading
          /\ loader'.abortController = 0]_vars

\* ------------------------------------------------------------------------
\* Properties of the zone selector and the generate button (SpecZone)
\* ------------------------------------------------------------------------
\* C18: when the click guard of the generate button lets generation proceed,
\* window.loadedBuildings holds at least one building and every building in
\* it was loaded for the zone selected at the time of the click.
C18_GuardPassesOnlyForSelectedZone ==
  page.lastClick.proceeds =>
    LET list == page.lastClick.buildings.list
    IN  /\ page.lastClick.buildings.assigned
        /\ Len(list) > 0
        /\ \A i \in DOMAIN list : list[i].zone = page.lastClick.zone

\* C19: when a loadRealBuildings call returns with its buildings, the
\* automatic count field actualBuildingsCount shows their number, and the
\* num_buildings that getFormParams gives the next generation request is
\* that same number.
C19_CountFieldAndRequestFollowLoad ==
  [][\A c \in 1..MaxCalls :
       (/\ calls[c].pc # "returned"
        /\ calls'[c].pc = "returned"
        /\ calls'[c].via = "loadRealBuildings")
       => LET n == Len(page'.loadedBuildings.list)
              request == getFormParams(script', form')
          IN  /\ page'.actualBuildingsCount # Undefined
                   => page'.actualBuildingsCount = toLocaleString(n)
              /\ request.kind = "params"
              /\ request.params.num_buildings = Num(n)]_vars

\* ------------------------------------------------------------------------
\* Properties of the OSM map module (SpecMap)
\* ------------------------------------------------------------------------
\* C20: when a generateData called through the map module's wrapper has
\* ended with a successful generation whose response carries a non-empty
\* location_analysis, handleGeneratedData has been invoked with that data
\* and the map centres on the first location.
C20_WrapperHandsDataToMap ==
  (/\ completed.op = "generate"
   /\ completed.wrapped
   /\ completed.ok
   /\ completed.success
   /\ completed.results
   /\ completed.location_analysis # <<>>)
  => /\ completed.handled
     /\ completed.centred = completed.location_analysis[1]

\* ------------------------------------------------------------------------
\* Properties of loadOSMData (SpecOSMData)
\* ------------------------------------------------------------------------
\* C21: when a call of loadOSMData completes, through the OSM response or
\* through the fallback generator, every polygon of the building layers was
\* added by that call, and the building counter equals the number that the
\* status message reports.
C21_LayersAndCounterOfThisLoad ==
  [][\A k \in 1..MaxLoads :
       (page.loads[k].pc # "done" /\ page'.loads[k].pc = "done")
       => /\ \A i \in DOMAIN page'.buildingLayers : page'.buildingLayers[i].load = k
          /\ page'.buildingCount = page'.status.n]_vars

\* C22: the predictor's listeners are debounced.  In every reachable state
\* at most one timer set by the listeners is pending; every update the
\* listeners have run came 300 ms or more after the most recent event and
\* followed at least one event; the events no such update has followed yet
\* have exactly that one timer pending; and the listeners have run and
\* scheduled no more updates than there were bursts of events closer than
\* 300 ms apart.
C22_ListenersAreDebounced ==
  LET q == page.predictor
      waiting == {t \in q.timers : t.callback = "debouncedUpdate"}
      run == {i \in DOMAIN q.updates : q.updates[i].by = "debouncedUpdate"}
  IN  /\ Cardinality(waiting) <= 1
      /\ \A i \in run : /\ q.updates[i].since >= debounceDelay
                         /\ q.updates[i].covers >= 1
      /\ (q.uncovered > 0) <=> (waiting # {})
      /\ Cardinality(run) + Cardinality(waiting) <= q.bursts

\* C22: a burst of three events less than 300 ms apart, on two elements,
\* has been followed by one update of the listeners, and nothing is pending.
C22_BurstGaveOneUpdate ==
  LET q == page.predictor
  IN  /\ q.bursts = 1
      /\ q.events = 3
      /\ q.lastEvent >= 200
      /\ form.numBuildings = T_0 /\ form.locationMode = "custom"
      /\ \E i \in DOMAIN q.updates :
            /\ q.updates[i].by = "debouncedUpdate"
            /\ q.updates[i].covers = 3
      /\ q.timers = {}

\* C23: after a prediction for a custom city, the table the prediction used
\* is the table of the tier the thresholds give its population (more than
\* 1,000,000 metropolis, more than 500,000 major_city, more than 200,000
\* medium_city, small_city otherwise), and it is the table of the recorded
\* tier of every city of malaysiaLocations that has the same population and
\* a recorded tier among these four.
C23_CustomCityGetsRecordedTier ==
  (prediction.status = "ok" /\ prediction.mode = "custom")
  => LET ver == prediction.version
         population == parseInt(form.customPopulation).v
         tier == IF population > 1000000 THEN "metropolis"
                 ELSE IF population > 500000 THEN "major_city"
                 ELSE IF population > 200000 THEN "medium_city"
                 ELSE "small_city"
         known == malaysiaLocations(ver)
     IN  /\ prediction.tables = <<typeRatios(ver)[tier]>>
         /\ \A i \in DOMAIN known :
              (known[i].population = population
               /\ known[i].type \in {"metropolis", "major_city", "medium_city", "small_city"})
              => prediction.tables = <<typeRatios(ver)[known[i].type]>>

====
